---- MODULE Spec2Model ----
(***************************************************************************)
(* Model of the template filler of Project-Serafina                        *)
(* (src/src/services/processors/xlsx_template_filler.py):                  *)
(*   - the JSON path navigator _navigate_json_path, character by character *)
(*     (the two regular expressions it uses are modelled on characters);   *)
(*   - the fill run: fill, _fill_cell, _add_to_report, _fill_array_data.   *)
(* JSON values and cell values are tagged records:                         *)
(*   [t |-> "null"], [t |-> "num", n], [t |-> "str", s],                   *)
(*   [t |-> "list", v |-> <<...>>], [t |-> "dict", v |-> [key |-> value]]  *)
(* A string that is a path or a key is a sequence of one-character strings.*)
(***************************************************************************)
EXTENDS Integers, Sequences, FiniteSets, TLC

VARIABLES
    navData,      \* _navigate_json_path: the data argument
    navPath,      \* _navigate_json_path: the path argument
    navResult,    \* its result (or the raise marker)
    navPc,        \* "input" before the call, "done" after it
    cfg,          \* fill: the field mappings (field_mappings)
    doc,          \* fill: json_data, the whole document
    tmpl,         \* the template file: sheet name -> grid
    outFile,      \* the output file: <<>> while absent, else <<sheet name -> grid>>
    wb,           \* the workbook loaded from the output file
    data,         \* the record at json_root
    report,       \* fill_report
    result,       \* the dict returned by the latest _fill_cell
    pc,           \* position of the run
    si,           \* index of the sheet config being processed
    mi,           \* index of the mapping being processed
    arr,          \* locals of _fill_array_data
    run,          \* number of the fill call
    call,         \* fill: output_path, and whether the template file is a workbook
    ret,          \* what fill returned
    trValue,      \* _apply_transform: value
    trName,       \* _apply_transform: transform
    trResult,     \* what _apply_transform returned
    trPc,         \* "off", "input" or "done"
    anSheet,      \* _analyze_sheet: the worksheet
    anSchema,     \* the four lists of sheet_schema
    anRow,        \* row_idx of the cell loop
    anCol,        \* col_idx of the cell loop
    anPc,         \* "off", "cells" or "done"
    capCall,      \* one capacity scan of _fill_array_data (lines 271-292)
    hdrCall,      \* one call of _detect_header_rows
    clsCall,      \* one call of _determine_cell_type
    anRun         \* one call of analyze

navVars == <<navData, navPath, navResult, navPc>>
trVars == <<trValue, trName, trResult, trPc>>
anVars == <<anSheet, anSchema, anRow, anCol, anPc>>
callVars == <<capCall, hdrCall, clsCall, anRun>>
fillVars == <<cfg, doc, tmpl, outFile, wb, data, report, result, pc, si, mi, arr, run,
              call, ret>>
vars == <<navData, navPath, navResult, navPc,
          cfg, doc, tmpl, outFile, wb, data, report, result, pc, si, mi, arr, run,
          call, ret, trValue, trName, trResult, trPc,
          anSheet, anSchema, anRow, anCol, anPc, capCall, hdrCall, clsCall, anRun>>

(***************************************************************************)
(* JSON values                                                             *)
(***************************************************************************)
JNull == [t |-> "null"]
JNum(k) == [t |-> "num", n |-> k]
JStr(x) == [t |-> "str", s |-> x]
JList(q) == [t |-> "list", v |-> q]
JDict(f) == [t |-> "dict", v |-> f]
\* an exception leaving the function
Raise == [t |-> "raise"]

IsNone(x) == x.t = "null"
IsDict(x) == x.t = "dict"
IsList(x) == x.t = "list"
IsRaise(x) == x.t = "raise"

EmptyMap == [k \in {} |-> JNull]
\* dict.get(key): None when the key is missing
DictGet(d, key) == IF key \in DOMAIN d.v THEN d.v[key] ELSE JNull

(***************************************************************************)
(* Characters. \w matches letters, decimal digits and other Unicode        *)
(* alphanumerics such as the superscript two (U+00B2, written "^2" here);  *)
(* \d matches decimal digits only; str.isdigit() is true of both kinds of  *)
(* digit; int() accepts decimal digits only.                               *)
(***************************************************************************)
Letters == {"a", "b", "c", "d", "e", "h", "i", "l", "m", "n", "o", "r", "s", "t", "u",
            "v", "w", "x", "y", "M", "_"}
Digits == {"0", "1", "2"}
SupDigits == {"^2"}
IsWordChar(c) == c \in Letters \cup Digits \cup SupDigits
IsDecimal(c) == c \in Digits

DigitValue(c) == CASE c = "0" -> 0 [] c = "1" -> 1 [] c = "2" -> 2

RECURSIVE IntOf(_)
\* int(s) of a string of decimal digits
IntOf(s) == IF s = <<>> THEN 0
            ELSE 10 * IntOf(SubSeq(s, 1, Len(s) - 1)) + DigitValue(s[Len(s)])

\* str.isdigit()
StrIsDigit(s) == Len(s) > 0 /\ \A i \in 1..Len(s) : s[i] \in Digits \cup SupDigits
\* int(s) returns (does not raise ValueError)
IntParses(s) == Len(s) > 0 /\ \A i \in 1..Len(s) : IsDecimal(s[i])

SetMin(S) == CHOOSE x \in S : \A y \in S : x <= y

(***************************************************************************)
(* re.split(r'\.(?![^\[]*\])', path): split at every dot that is not       *)
(* followed by a ']' with no '[' in between.                               *)
(***************************************************************************)
BracketAhead(path, i) ==
    \E j \in (i + 1)..Len(path) :
        /\ path[j] = "]"
        /\ \A k \in (i + 1)..(j - 1) : path[k] # "["

SplitPoints(path) == {i \in 1..Len(path) : path[i] = "." /\ ~BracketAhead(path, i)}

RECURSIVE SplitFrom(_, _)
SplitFrom(path, start) ==
    LET pts == {i \in SplitPoints(path) : i >= start}
    IN  IF pts = {} THEN <<SubSeq(path, start, Len(path))>>
        ELSE <<SubSeq(path, start, SetMin(pts) - 1)>> \o SplitFrom(path, SetMin(pts) + 1)

SplitPath(path) == SplitFrom(path, 1)

(***************************************************************************)
(* re.match(r'(\w+)\[(\d+)\]', part): a greedy run of word characters,     *)
(* '[', a greedy run of decimal digits, ']', anchored at the start only.   *)
(***************************************************************************)
\* (\w+): length of the longest run of word characters at the start of part
WordRunLen(part) ==
    LET ends == {n \in 0..Len(part) : \A i \in 1..n : IsWordChar(part[i])}
    IN  CHOOSE n \in ends : \A m \in ends : m <= n

\* (\d+): length of the longest run of decimal digits starting at position from
DigitRunLen(part, from) ==
    LET ends == {n \in 0..(Len(part) - from + 1) :
                    \A i \in from..(from + n - 1) : IsDecimal(part[i])}
    IN  CHOOSE n \in ends : \A m \in ends : m <= n

ArrayMatch(part) ==
    LET w == WordRunLen(part)
        d == DigitRunLen(part, w + 2)
    IN  IF /\ w >= 1
           /\ Len(part) >= w + 1 /\ part[w + 1] = "["
           /\ d >= 1
           /\ Len(part) >= w + 2 + d /\ part[w + 2 + d] = "]"
        THEN [ok |-> TRUE, key |-> SubSeq(part, 1, w), index |-> SubSeq(part, w + 2, w + 1 + d)]
        ELSE [ok |-> FALSE, key |-> <<>>, index |-> <<>>]

(***************************************************************************)
(* _navigate_json_path                                                     *)
(***************************************************************************)
RECURSIVE Walk(_, _)
\* the loop over the parts (lines 421-453)
Walk(current, parts) ==
    IF parts = <<>> THEN current
    ELSE IF IsNone(current) THEN JNull
    ELSE LET part == Head(parts)
             m == ArrayMatch(part)
         IN  IF m.ok
             THEN IF IsDict(current) /\ m.key \in DOMAIN current.v
                  THEN LET inner == current.v[m.key]
                           index == IntOf(m.index)
                       IN  IF IsList(inner) /\ index < Len(inner.v)
                           THEN Walk(inner.v[index + 1], Tail(parts))
                           ELSE JNull
                  ELSE IF IsList(current) /\ StrIsDigit(m.key)
                  THEN IF ~IntParses(m.key) THEN Raise
                       ELSE IF IntOf(m.key) < Len(current.v)
                            THEN Walk(current.v[IntOf(m.key) + 1], Tail(parts))
                            ELSE JNull
                  ELSE JNull
             ELSE IF IsDict(current)
                  THEN Walk(DictGet(current, part), Tail(parts))
                  ELSE JNull

\* a faulty variant: the direct key lookup of lines 413-414 is missing
NavigateNoDirectLookup(json, path) ==
    IF IsNone(json) \/ path = <<>> THEN JNull
    ELSE Walk(json, SplitPath(path))

NavigateJsonPath(json, path) ==
    IF IsNone(json) \/ path = <<>> THEN JNull
    ELSE IF IsDict(json) /\ path \in DOMAIN json.v THEN json.v[path]
    ELSE Walk(json, SplitPath(path))

(***************************************************************************)
(* Optional values: a missing key of a config dict (dict.get gives None)   *)
(***************************************************************************)
None == <<>>
Some(x) == <<x>>
IsSome(o) == o # <<>>
Val(o) == o[1]
\* dict.get(key, default)
GetOr(o, default) == IF IsSome(o) THEN Val(o) ELSE default

(***************************************************************************)
(* Sheets. A grid is the window of rows 1..GridRows over the columns Cols; *)
(* a cell outside the stored cells reads None.                             *)
(***************************************************************************)
Cols == {"B", "C", "D"}
GridRows == 7
BlankRow == [c \in Cols |-> JNull]
BlankGrid == [r \in 1..GridRows |-> BlankRow]

\* a cell reference such as "B2"; sheet[ref] raises for anything else
Ref(c, r) == [col |-> c, row |-> r]
BadRef == [col |-> "?", row |-> 0]
ValidRef(ref) == ref.col \in Cols /\ ref.row \in 1..GridRows

CellValue(g, col, row) == IF row \in DOMAIN g /\ col \in Cols THEN g[row][col] ELSE JNull
SetCell(g, col, row, v) == [g EXCEPT ![row][col] = v]

\* the strings of the model that begin with '='
FormulaTexts == {"=SUM(A1:A10)", "=SUM(C)", "=NOW()",
                 "=C1*2", "=C2*2", "=C3*2", "=C4*2", "=C5*2", "=C6*2", "=C7*2", "=C8*2", "=C9*2"}
StartsWithEquals(x) == x \in FormulaTexts

\* a faulty variant: nothing counts as a formula
NeverFormula(v) == FALSE

\* cell.value and isinstance(cell.value, str) and cell.value.startswith("=")
IsFormula(v) == v.t = "str" /\ StartsWithEquals(v.s)

\* cell.value = value raises ValueError for a value that is no scalar
Storable(v) == v.t \notin {"list", "dict"}

\* str(cell_val).strip().lower() of the strings of the model
StripLower(x) ==
    CASE x = "Total" -> "total"
      [] x = " TOTALS " -> "totals"
      [] x = "Subtotal" -> "subtotal"
      [] x = "Notes" -> "notes"
      [] x = "Unit" -> "unit"
      [] OTHER -> x

\* lines 277-281: the cell of the anchor column marks the Total row
IsTotalCell(v) ==
    /\ ~IsNone(v)
    /\ v.t = "str"
    /\ StripLower(v.s) \in {"total", "totals"}

ScanWindow == 50
DefaultMaxRows == 25
DefaultRowStart == 1

\* a faulty variant: the scan goes on to the last row of the sheet
FindTotalRowUnbounded(g, row_start) ==
    LET hits == {r \in DOMAIN g : r >= row_start /\ IsTotalCell(CellValue(g, "B", r))}
    IN  IF hits = {} THEN 0 ELSE SetMin(hits)

\* lines 273-283: the first Total row within the scan window, 0 for None
FindTotalRow(g, row_start) ==
    LET hits == {r \in row_start..(row_start + ScanWindow - 1) : IsTotalCell(CellValue(g, "B", r))}
    IN  IF hits = {} THEN 0 ELSE SetMin(hits)

\* lines 286-292
RowsInTable(total_row, row_start, max_rows) ==
    IF total_row # 0 THEN total_row - row_start ELSE max_rows

\* a faulty variant: the clear loop does not look for formulas
ClearRangeAll(g, columns, row_start, n) ==
    [r \in 1..GridRows |->
        [c \in Cols |->
            IF c \in columns /\ r \in row_start..(row_start + n - 1)
            THEN JNull ELSE g[r][c]]]

\* lines 294-305: blank the clear columns of the capacity rows, formulas kept
ClearRange(g, columns, row_start, n) ==
    [r \in 1..GridRows |->
        [c \in Cols |->
            IF c \in columns /\ r \in row_start..(row_start + n - 1) /\ ~IsFormula(g[r][c])
            THEN JNull ELSE g[r][c]]]

\* sheet.delete_rows(idx, amount): the rows below move up
DeleteRows(g, idx, amount) ==
    [r \in 1..GridRows |->
        IF r < idx THEN g[r]
        ELSE IF r + amount <= GridRows THEN g[r + amount]
        ELSE BlankRow]

(***************************************************************************)
(* _apply_transform                                                        *)
(***************************************************************************)
JFrac(k, per) == [t |-> "frac", n |-> k, d |-> per]
\* an int beyond the range of float, such as 10**400
JBig == [t |-> "big"]
\* the float nan
JNaN == [t |-> "nan"]

\* the strings of decimal digits of the model, and their int
DecimalTexts == {"97", "12", "2", "1234", "2019", "148148"}
DecimalOf(x) ==
    CASE x = "97" -> 97
      [] x = "12" -> 12
      [] x = "2" -> 2
      [] x = "1234" -> 1234
      [] x = "2019" -> 2019
      [] x = "148148" -> 148148

\* float(x) of the strings of the model: ValueError for the others
FloatParses(x) == x \in DecimalTexts \cup {"9.7", "nan"}
FloatOf(x) ==
    CASE x \in DecimalTexts -> JNum(DecimalOf(x))
      [] x = "9.7" -> JFrac(97, 10)
      [] x = "nan" -> JNaN

\* line 460: float(value) / 100; OverflowError is not caught by line 461
DivideBy100(value) ==
    CASE value.t = "num" -> JFrac(value.n, 100)
      [] value.t = "frac" -> JFrac(value.n, value.d * 100)
      [] value.t = "nan" -> JNaN
      [] value.t = "big" -> Raise
      [] value.t = "str" /\ FloatParses(value.s) ->
            (CASE FloatOf(value.s).t = "num" -> JFrac(FloatOf(value.s).n, 100)
               [] FloatOf(value.s).t = "frac" ->
                     JFrac(FloatOf(value.s).n, FloatOf(value.s).d * 100)
               [] OTHER -> JNaN)
      [] OTHER -> value

\* line 468: re.sub(r'[^0-9.-]', '', value) of the strings a transform is given
Cleaned(x) ==
    CASE x \in DecimalTexts \cup {"9.7"} -> x
      [] x = "$1,234" -> "1234"
      [] x = "Purchased Mar 2019" -> "2019"
      [] x = "Urban 148 148 Unit Apartment Building" -> "148148"
      [] x = "All 2 Bed" -> "2"
      [] x = "Phoenix, Arizona - North Phoenix Neighborhood" -> "-"
      [] OTHER -> ""

\* lines 466-472
ToNumber(value) ==
    IF value.t = "str"
    THEN IF FloatParses(Cleaned(value.s)) THEN FloatOf(Cleaned(value.s)) ELSE value
    ELSE value

\* line 480: datetime.now().year
CurrentYear == 2026

\* line 477: the first 19xx or 20xx token of the strings of the model, 0 for no match
YearToken(x) ==
    CASE x = "Purchased Mar 2019" -> 2019
      [] x = "2019" -> 2019
      [] OTHER -> 0

\* lines 476-482
YearsSincePurchase(value) ==
    IF value.t = "str" /\ YearToken(value.s) # 0
    THEN JNum(CurrentYear - YearToken(value.s))
    ELSE value

\* lines 489-495: the text before "<number> Unit", else the leading run of
\* letters and spaces, stripped; the string itself stands for no match
PropertyName(x) ==
    CASE x = "Urban 148 148 Unit Apartment Building" -> "Urban 148"
      [] x = "Purchased Mar 2019" -> "Purchased Mar"
      [] x = "Phoenix, Arizona - North Phoenix Neighborhood" -> "Phoenix"
      [] x = "Austin, Texastan" -> "Austin"
      [] x = "All 2 Bed" -> "All"
      [] x = "n/a" -> "n"
      [] x = " TOTALS " -> "TOTALS"
      [] OTHER -> x

\* lines 502-504: value.split(',')[0].strip() of the strings of the model
FirstCommaSegment(x) ==
    CASE x = "Phoenix, Arizona - North Phoenix Neighborhood" -> "Phoenix"
      [] x = "Austin, Texastan" -> "Austin"
      [] x = "$1,234" -> "$1"
      [] x = " TOTALS " -> "TOTALS"
      [] OTHER -> x

\* lines 526-528: the lowered name after the first comma, "" for no match
StateName(x) ==
    CASE x = "Phoenix, Arizona - North Phoenix Neighborhood" -> "arizona"
      [] x = "Austin, Texastan" -> "texastan"
      [] OTHER -> ""

\* line 529: state_abbrevs.get(state_name, state_name.upper()[:2])
StateAbbrev(state_name) ==
    CASE state_name = "arizona" -> "AZ"
      [] state_name = "texas" -> "TX"
      [] state_name = "texastan" -> "TE"

ApplyTransform(value, transform) ==
    CASE transform = "divide_by_100" -> DivideBy100(value)
      [] transform = "to_number" -> ToNumber(value)
      [] transform = "years_since_purchase" -> YearsSincePurchase(value)
      [] transform = "extract_property_name" ->
            IF value.t = "str" THEN JStr(PropertyName(value.s)) ELSE value
      [] transform = "extract_city" ->
            IF value.t = "str" THEN JStr(FirstCommaSegment(value.s)) ELSE value
      [] transform = "extract_state_abbrev" ->
            IF value.t = "str" /\ StateName(value.s) # ""
            THEN JStr(StateAbbrev(StateName(value.s)))
            ELSE value
      [] OTHER -> value

(***************************************************************************)
(* Mappings and reports                                                    *)
(***************************************************************************)
\* a mapping dict with no key set
NoMapping ==
    [cell |-> None, json_path |-> None, source |-> None, json_root_override |-> None,
     fallback_path |-> None, fallback_transform |-> None, transform |-> None,
     column |-> None, json_field |-> None]

\* a sheet config dict: mappings is None when the key is absent
NoSheetConfig ==
    [name |-> "", mappings |-> None, array_source |-> None, row_start |-> None,
     max_rows |-> None, clear_columns |-> None, delete_empty_rows |-> None]

ReasonNoValue == "No value found at path"
ReasonFormula == "Cell contains formula, not overwriting"

Outcome(status, sheet, cell, value, reason) ==
    [status |-> status, sheet |-> sheet, cell |-> cell, value |-> value, reason |-> reason]
NoResult == Outcome("none", "", None, JNull, "")

EmptyReport == [filled_fields |-> <<>>, skipped_fields |-> <<>>,
                external_fields |-> <<>>, errors |-> <<>>]

\* lines 154-159: the summary of a report
Summary(rep) ==
    [total_filled |-> Len(rep.filled_fields), total_skipped |-> Len(rep.skipped_fields),
     total_external |-> Len(rep.external_fields), total_errors |-> Len(rep.errors)]

\* what fill returns: nothing yet, the report with its summary (line 161), or
\* the error dict of lines 86-89, 109-112 and 165-168
NoReturn == [status |-> "none", report |-> <<>>, summary |-> <<>>]
SuccessResult(rep) == [status |-> "success", report |-> <<rep>>, summary |-> <<Summary(rep)>>]
ErrorResult == [status |-> "error", report |-> <<>>, summary |-> <<>>]

\* bool(x) of a JSON value
Truthy(x) ==
    CASE x.t = "null" -> FALSE
      [] x.t = "num" -> x.n # 0
      [] x.t = "frac" -> x.n # 0
      [] x.t = "str" -> x.s # ""
      [] x.t = "list" -> x.v # <<>>
      [] x.t = "dict" -> DOMAIN x.v # {}
      [] OTHER -> TRUE

\* a faulty variant: external results are not recorded
AddToReportNoExternal(rep, sheet_name, res) ==
    LET r == [res EXCEPT !.sheet = sheet_name]
    IN  CASE r.status = "filled" -> [rep EXCEPT !.filled_fields = Append(@, r)]
          [] r.status = "skipped" -> [rep EXCEPT !.skipped_fields = Append(@, r)]
          [] r.status = "error" -> [rep EXCEPT !.errors = Append(@, r)]
          [] OTHER -> rep

\* _add_to_report (lines 534-553)
AddToReport(rep, sheet_name, res) ==
    LET r == [res EXCEPT !.sheet = sheet_name]
    IN  CASE r.status = "filled" -> [rep EXCEPT !.filled_fields = Append(@, r)]
          [] r.status = "skipped" -> [rep EXCEPT !.skipped_fields = Append(@, r)]
          [] r.status = "external" -> [rep EXCEPT !.external_fields = Append(@, r)]
          [] r.status = "error" -> [rep EXCEPT !.errors = Append(@, r)]
          [] OTHER -> rep

(***************************************************************************)
(* _fill_cell (lines 170-252): the result dict, the grid after the call,   *)
(* and whether an exception left the function                              *)
(***************************************************************************)
CellCall(res, g, raised) == [res |-> res, g |-> g, raised |-> raised]

\* lines 196-199
LookupData(mapping, record, full_json) ==
    IF IsSome(mapping.json_root_override) /\ Truthy(full_json) THEN full_json ELSE record

\* a faulty variant: the fallback transform is not applied
FallbackUntransformed(mapping, fb) == fb

\* lines 205-208: the fallback value, transformed when a transform is declared
FallbackValue(mapping, fb) ==
    IF IsRaise(fb) THEN Raise
    ELSE IF ~IsNone(fb) /\ IsSome(mapping.fallback_transform)
            /\ Val(mapping.fallback_transform) # ""
    THEN ApplyTransform(fb, Val(mapping.fallback_transform))
    ELSE fb

\* lines 201-204: the fallback is tried when the primary path found nothing
WithFallback(mapping, full_json, value) ==
    IF IsRaise(value) THEN Raise
    ELSE IF /\ IsNone(value)
            /\ IsSome(mapping.fallback_path) /\ Val(mapping.fallback_path) # <<>>
            /\ Truthy(full_json)
    THEN CHOOSE x \in {FallbackValue(mapping, fb) :
                          fb \in {NavigateJsonPath(full_json, Val(mapping.fallback_path))}} : TRUE
    ELSE value

\* lines 196-208: the value of the primary path, else of the fallback path
ResolvedValue(mapping, record, full_json) ==
    CHOOSE x \in {WithFallback(mapping, full_json, value) :
                     value \in {NavigateJsonPath(LookupData(mapping, record, full_json),
                                                 Val(mapping.json_path))}} : TRUE

\* a faulty variant: only a missing json_path makes a mapping external
IsExternalPathOnly(mapping) == ~IsSome(mapping.json_path)

\* line 188
IsExternal(mapping) == mapping.source = Some("external") \/ ~IsSome(mapping.json_path)

\* a faulty variant: the declared transform is not applied
TransformDropped(mapping, value) == value

\* a faulty variant: a mapping with a fallback path gets no declared transform
TransformUnlessFallback(mapping, value) ==
    IF IsSome(mapping.transform) /\ Val(mapping.transform) # ""
          /\ ~IsSome(mapping.fallback_path)
    THEN ApplyTransform(value, Val(mapping.transform))
    ELSE value

\* lines 218-221
Transformed(mapping, value) ==
    IF IsSome(mapping.transform) /\ Val(mapping.transform) # ""
    THEN ApplyTransform(value, Val(mapping.transform))
    ELSE value

\* a faulty variant: the write does not look at what the cell holds
WriteCellUnguarded(g, mapping, ref, v) ==
    IF ~ValidRef(ref)
    THEN CellCall(Outcome("error", "", mapping.cell, JNull, "exception"), g, FALSE)
    ELSE IF ~Storable(v)
    THEN CellCall(Outcome("error", "", mapping.cell, JNull, "exception"), g, FALSE)
    ELSE CellCall(Outcome("filled", "", mapping.cell, v, ""),
                  SetCell(g, ref.col, ref.row, v), FALSE)

\* lines 224-252: the guarded write of the transformed value v
WriteCell(g, mapping, ref, v) ==
    IF ~ValidRef(ref)
    THEN CellCall(Outcome("error", "", mapping.cell, JNull, "exception"), g, FALSE)
    ELSE IF IsFormula(CellValue(g, ref.col, ref.row))
    THEN CellCall(Outcome("skipped", "", mapping.cell, JNull, ReasonFormula), g, FALSE)
    ELSE IF ~Storable(v)
    THEN CellCall(Outcome("error", "", mapping.cell, JNull, "exception"), g, FALSE)
    ELSE CellCall(Outcome("filled", "", mapping.cell, v, ""),
                  SetCell(g, ref.col, ref.row, v), FALSE)

\* lines 210-252: skipped when nothing was found, else transform and write
AfterResolve(g, mapping, value) ==
    IF IsRaise(value) THEN CellCall(NoResult, g, TRUE)
    ELSE IF IsNone(value)
    THEN CellCall(Outcome("skipped", "", mapping.cell, JNull, ReasonNoValue), g, FALSE)
    ELSE CHOOSE c \in {IF IsRaise(v) THEN CellCall(NoResult, g, TRUE)
                       ELSE WriteCell(g, mapping, ref, v) :
                          ref \in {GetOr(mapping.cell, BadRef)},
                          v \in {Transformed(mapping, value)}} : TRUE

FillCellCall(g, mapping, record, full_json) ==
    IF IsExternal(mapping)
    THEN CellCall(Outcome("external", "", mapping.cell, JNull, ""), g, FALSE)
    ELSE CHOOSE c \in {AfterResolve(g, mapping, value) :
                          value \in {ResolvedValue(mapping, record, full_json)}} : TRUE

(***************************************************************************)
(* _fill_array_data (lines 254-397)                                        *)
(***************************************************************************)
kBed == <<"b", "e", "d">>
kBath == <<"b", "a", "t", "h">>
pUnitMixUnits == <<"u", "n", "i", "t", "M", "i", "x", ".", "u", "n", "i", "t", "s">>
pAvailabilityUnits == <<"a", "v", "a", "i", "l", "a", "b", "i", "l", "i", "t", "y", ".",
                        "u", "n", "i", "t", "s">>

\* "total" in bed_lower or "all" in bed_lower, of the strings of the model
ContainsTotalOrAll(x) == x \in {"Total", "All 2 Bed", "Small"}

\* lines 324-328: the row is a summary row and is skipped
IsSummaryRow(row_data) ==
    LET bed_value == IF kBed \in DOMAIN row_data.v THEN row_data.v[kBed] ELSE JStr("")
    IN  bed_value.t = "str" /\ ContainsTotalOrAll(bed_value.s)

\* isinstance(x, (int, float))
IsNumeric(x) == x.t \in {"num", "frac"}
\* int(x): defined for numbers and for strings of decimal digits
IntDefined(x) == IsNumeric(x) \/ (x.t = "str" /\ x.s \in DecimalTexts)
IntValue(x) == CASE x.t = "num" -> x.n
                 [] x.t = "frac" -> x.n \div x.d
                 [] OTHER -> DecimalOf(x.s)

ColSkip == [kind |-> "skip", v |-> JNull]
ColRaise == [kind |-> "raise", v |-> JNull]
ColValue(x) == [kind |-> "value", v |-> x]

\* lines 349-356: occupied units = total units - available units
CalcOccupied(total_units, available_units) ==
    IF ~IsNone(total_units) /\ ~IsNone(available_units)
    THEN IF IntDefined(total_units) /\ IntDefined(available_units)
         THEN ColValue(JNum(IntValue(total_units) - IntValue(available_units)))
         ELSE ColRaise
    ELSE ColSkip

\* lines 341-348: the label "<int(bed)>B/<int(bath)>Ba"
BedBathLabel(bed, bath) ==
    IF IsNumeric(bed) /\ IsNumeric(bath)
    THEN ColValue(JStr(ToString(IntValue(bed)) \o "B/" \o ToString(IntValue(bath)) \o "Ba"))
    ELSE ColSkip

\* lines 360-364: the value of the row's field
FieldValue(value) ==
    IF IsRaise(value) THEN ColRaise
    ELSE IF IsNone(value) THEN ColSkip
    ELSE ColValue(value)

\* lines 340-364: the value of one column of one source row
ColumnValue(row_data, col_mapping) ==
    IF col_mapping.transform = Some("bed_bath_label")
    THEN BedBathLabel(DictGet(row_data, kBed), DictGet(row_data, kBath))
    ELSE IF col_mapping.transform = Some("calc_occupied")
    THEN CHOOSE x \in {CalcOccupied(total_units, available_units) :
                          total_units \in {NavigateJsonPath(row_data, pUnitMixUnits)},
                          available_units \in {NavigateJsonPath(row_data, pAvailabilityUnits)}} : TRUE
    ELSE IF ~IsSome(col_mapping.json_field) \/ Val(col_mapping.json_field) = <<>>
    THEN ColSkip
    ELSE CHOOSE x \in {FieldValue(value) :
                          value \in {NavigateJsonPath(row_data, Val(col_mapping.json_field))}} : TRUE

RowState(g, filled, errors, raised) ==
    [g |-> g, filled |-> filled, errors |-> errors, raised |-> raised]

\* a faulty variant: the write of a column does not look for a formula
WriteColumnUnguarded(st, ref, cv, col_mapping, sheet_name) ==
    IF cv.kind = "raise" THEN [st EXCEPT !.raised = TRUE]
    ELSE IF cv.kind = "skip" THEN st
    ELSE IF ~ValidRef(ref) \/ ~Storable(cv.v)
    THEN [st EXCEPT !.errors = Append(@, Outcome("error", sheet_name, Some(ref), JNull, "exception"))]
    ELSE [st EXCEPT !.g = SetCell(@, ref.col, ref.row, cv.v),
                    !.filled = Append(@, Outcome("filled", sheet_name, Some(ref), cv.v, ""))]

\* lines 363-389: the guarded write of the value cv of one column
WriteColumn(st, ref, cv, col_mapping, sheet_name) ==
    IF cv.kind = "raise" THEN [st EXCEPT !.raised = TRUE]
    ELSE IF cv.kind = "skip" THEN st
    ELSE IF ~ValidRef(ref)
    THEN [st EXCEPT !.errors = Append(@, Outcome("error", sheet_name, Some(ref), JNull, "exception"))]
    ELSE IF IsFormula(CellValue(st.g, ref.col, ref.row)) THEN st
    ELSE IF ~Storable(cv.v)
    THEN [st EXCEPT !.errors = Append(@, Outcome("error", sheet_name, Some(ref), JNull, "exception"))]
    ELSE [st EXCEPT !.g = SetCell(@, ref.col, ref.row, cv.v),
                    !.filled = Append(@, Outcome("filled", sheet_name, Some(ref), cv.v, ""))]

\* lines 333-389: one column mapping for one source row
ColumnStep(st, row_data, current_row, col_mapping, sheet_name) ==
    IF ~IsSome(col_mapping.column) \/ Val(col_mapping.column) = "" THEN st
    ELSE CHOOSE x \in {WriteColumn(st, ref, cv, col_mapping, sheet_name) :
                          ref \in {Ref(Val(col_mapping.column), current_row)},
                          cv \in {ColumnValue(row_data, col_mapping)}} : TRUE

RECURSIVE WriteColumns(_, _, _, _, _)
\* lines 332-389: the loop over the column mappings for one source row
WriteColumns(st, row_data, current_row, column_mappings, sheet_name) ==
    IF column_mappings = <<>> \/ st.raised THEN st
    ELSE CHOOSE x \in {WriteColumns(next, row_data, current_row, Tail(column_mappings), sheet_name) :
                          next \in {ColumnStep(st, row_data, current_row,
                                               Head(column_mappings), sheet_name)}} : TRUE

\* line 268: the default of clear_columns
MappedColumns(column_mappings) ==
    {Val(column_mappings[i].column) : i \in {j \in 1..Len(column_mappings) :
        IsSome(column_mappings[j].column) /\ Val(column_mappings[j].column) # ""}}

NoArr == [total_row |-> 0, max_rows |-> 0, rows_to_fill |-> 0, row_idx |-> 0,
          row_start |-> 0, array_data |-> <<>>, deleted |-> 0]

(***************************************************************************)
(* The files of a fill call                                                *)
(***************************************************************************)
\* the path of the template and the paths an output can have
TemplatePath == "template.xlsx"
GivenOutputPath == "filled.xlsx"
\* lines 94-97: "<stem>_filled_<timestamp>.xlsx" beside the template
AutoOutputPath == "template_filled_20240101_000000.xlsx"
OutputPath == IF IsSome(call.output_path) /\ Val(call.output_path) # ""
              THEN Val(call.output_path) ELSE AutoOutputPath

\* a faulty variant: copying a file onto itself goes unnoticed
SameFileUnnoticed(src, dst) == FALSE

\* line 99: shutil.copy2 raises SameFileError when source and target are one file
SameFile(src, dst) == src = dst

NoCall == [output_path |-> None, openable |-> TRUE]

(***************************************************************************)
(* The navigator on bounded inputs                                         *)
(***************************************************************************)
MaxPathLen == 5
NavChars == {"a", "0", "^2", ".", "[", "]"}

RECURSIVE StringsUpTo(_, _)
StringsUpTo(chars, n) ==
    IF n = 0 THEN {<<>>}
    ELSE LET shorter == StringsUpTo(chars, n - 1)
         IN  shorter \cup {Append(s, c) : s \in shorter, c \in chars}

ka == <<"a">>
NavDataSet ==
    { JNull,
      JNum(7),
      JList(<<>>),
      JList(<<JNum(1)>>),
      JDict(EmptyMap),
      JDict(ka :> JNull),
      JDict(ka :> JStr("x") @@ <<>> :> JNum(5)),
      JDict(ka :> JDict(ka :> JNum(2)) @@ <<"a", ".", "a">> :> JNum(3)),
      JDict(ka :> JList(<<JDict(ka :> JNum(4))>>) @@ <<"a", "[", "0", "]">> :> JNum(6)),
      JDict(<<"0">> :> JList(<<JNum(9)>>) @@ ka :> JList(<<>>)) }

NavIdle ==
    /\ navData = JNull
    /\ navPath = <<>>
    /\ navResult = JNull
    /\ navPc = "off"

TransformIdle ==
    /\ trValue = JNull
    /\ trName = ""
    /\ trResult = JNull
    /\ trPc = "off"

EmptySchema == [input_fields |-> <<>>, formula_fields |-> <<>>, labels |-> <<>>,
                headers |-> <<>>]

AnalyzerIdle ==
    /\ anSheet = <<>>
    /\ anSchema = EmptySchema
    /\ anRow = 1
    /\ anCol = 1
    /\ anPc = "off"

\* no call in progress
NoCallState == [pc |-> "off"]
CapacityIdle == capCall = NoCallState
HeaderIdle == hdrCall = NoCallState
ClassifyIdle == clsCall = NoCallState
AnalyzeIdle == anRun = NoCallState

FillIdle ==
    /\ cfg = [loaded |-> FALSE, json_root |-> None, sheets |-> <<>>]
    /\ doc = JNull
    /\ tmpl = <<>>
    /\ outFile = None
    /\ wb = <<>>
    /\ data = JNull
    /\ report = EmptyReport
    /\ result = NoResult
    /\ pc = "off"
    /\ si = 1
    /\ mi = 1
    /\ arr = NoArr
    /\ run = 1
    /\ call = NoCall
    /\ ret = NoReturn

InitNav ==
    /\ navData \in NavDataSet
    /\ navPath \in StringsUpTo(NavChars, MaxPathLen)
    /\ navResult = JNull
    /\ navPc = "input"
    /\ FillIdle
    /\ TransformIdle
    /\ AnalyzerIdle
    /\ CapacityIdle
    /\ HeaderIdle
    /\ ClassifyIdle
    /\ AnalyzeIdle

\* one call of _navigate_json_path(navData, navPath)
NavResolve ==
    /\ navPc = "input"
    /\ navResult' = NavigateJsonPath(navData, navPath)
    /\ navPc' = "done"
    /\ UNCHANGED <<navData, navPath>>
    /\ UNCHANGED <<fillVars, trVars, anVars, callVars>>

NextNav == NavResolve

SpecNav == InitNav /\ [][NextNav]_vars

(***************************************************************************)
(* _apply_transform on bounded input (lines 455-532)                       *)
(***************************************************************************)
TransformTexts ==
    {"", "97", "9.7", "nan", "n/a", "$1,234", "Acme LLC", "Purchased Mar 2019",
     "Urban 148 148 Unit Apartment Building",
     "Phoenix, Arizona - North Phoenix Neighborhood", "Austin, Texastan"}

TransformValues ==
    {JNull, JNum(0), JNum(9), JFrac(97, 10), JBig, JList(<<>>), JDict(EmptyMap)}
        \cup {JStr(x) : x \in TransformTexts}

\* the names _apply_transform knows
KnownTransforms ==
    {"divide_by_100", "to_number", "years_since_purchase", "extract_property_name",
     "extract_city", "extract_state_abbrev"}

TransformNames == KnownTransforms \cup {"", "round_up", "bed_bath_label"}

InitTransform ==
    /\ trValue \in TransformValues
    /\ trName \in TransformNames
    /\ trResult = JNull
    /\ trPc = "input"
    /\ NavIdle
    /\ FillIdle
    /\ AnalyzerIdle
    /\ CapacityIdle
    /\ HeaderIdle
    /\ ClassifyIdle
    /\ AnalyzeIdle

\* one call of _apply_transform(trValue, trName)
TransformApply ==
    /\ trPc = "input"
    /\ trResult' = ApplyTransform(trValue, trName)
    /\ trPc' = "done"
    /\ UNCHANGED <<trValue, trName>>
    /\ UNCHANGED <<fillVars, navVars, anVars, callVars>>

NextTransform == TransformApply

SpecTransform == InitTransform /\ [][NextTransform]_vars

(***************************************************************************)
(* The template analyzer: _analyze_sheet (xlsx_template_analyzer.py,       *)
(* lines 108-168) on one worksheet                                         *)
(***************************************************************************)
\* sheet.max_row and sheet.max_column of the worksheets of the model
SheetMaxRow == 2
SheetMaxCol == 3

\* a cell: value, font.bold, number_format
SheetCell(value, bold, number_format) ==
    [value |-> value, bold |-> bold, number_format |-> number_format]
PlainCell(value) == SheetCell(value, FALSE, "General")

\* a merged range and its top-left cell
CellRange(min_row, min_col, max_row, max_col) ==
    [min_row |-> min_row, min_col |-> min_col, max_row |-> max_row, max_col |-> max_col]
\* cell.coordinate in merged_range
InRange(row, col, rg) ==
    /\ rg.min_row <= row /\ row <= rg.max_row
    /\ rg.min_col <= col /\ col <= rg.max_col
\* get_column_letter
ColumnLetter(col) == CASE col = 1 -> "A" [] col = 2 -> "B" [] col = 3 -> "C" [] col = 4 -> "D"
Coordinate(row, col) == [col |-> ColumnLetter(col), row |-> row]
\* merged_range.coord.split(":")[0]
StartCell(rg) == Coordinate(rg.min_row, rg.min_col)

\* not value.strip(), of the strings of the model
IsBlankText(x) == x \in {"", "  "}
EndsWithColon(x) == x \in {"Name:"}
\* line 283: word characters and blanks, a colon, optional blanks
MatchesColonPattern(x) == x \in {"Name:", "Owner: "}
\* line 284: a word of the vocabulary, an optional colon, optional blanks
MatchesVocabulary(x) == x \in {"Name:", "Notes", "Total", "Unit"}
\* lines 282-289: the two label patterns, of the strings of the model
MatchesLabelPattern(x) == MatchesColonPattern(x) \/ MatchesVocabulary(x)
LongText == "Two bedroom units on the north side"
\* len(value) < 30, of the strings of the model
IsShortText(x) == x # LongText

\* _is_likely_label (lines 267-299)
IsLikelyLabel(value, cell, column) ==
    IF value = "" THEN FALSE
    ELSE \/ MatchesLabelPattern(value)
         \/ column <= 2 /\ IsShortText(value)
         \/ cell.bold

\* a date value
JDate == [t |-> "date"]

\* _is_likely_input (lines 301-325)
IsLikelyInput(cell) ==
    \/ cell.value.t \in {"num", "frac"}
    \/ cell.value.t = "date"
    \/ cell.number_format # "General"

\* a faulty variant: only None counts as empty
DetermineCellTypeNoneOnly(cell, column, is_header_row) ==
    LET value == cell.value
    IN  IF IsNone(value) THEN "empty"
        ELSE IF value.t = "str" /\ StartsWithEquals(value.s) THEN "formula"
        ELSE IF is_header_row /\ value.t = "str" THEN "header"
        ELSE IF value.t = "str" /\ (EndsWithColon(value.s) \/ IsLikelyLabel(value.s, cell, column))
        THEN "label"
        ELSE IF IsLikelyInput(cell) THEN "input"
        ELSE IF value.t = "str" THEN "label"
        ELSE "input"

\* a faulty variant: the header rule is tried before the formula rule
DetermineCellTypeHeaderFirst(cell, column, is_header_row) ==
    LET value == cell.value
    IN  IF IsNone(value) \/ (value.t = "str" /\ IsBlankText(value.s)) THEN "empty"
        ELSE IF is_header_row /\ value.t = "str" THEN "header"
        ELSE IF value.t = "str" /\ StartsWithEquals(value.s) THEN "formula"
        ELSE IF value.t = "str" /\ (EndsWithColon(value.s) \/ IsLikelyLabel(value.s, cell, column))
        THEN "label"
        ELSE IF IsLikelyInput(cell) THEN "input"
        ELSE IF value.t = "str" THEN "label"
        ELSE "input"

\* _determine_cell_type (lines 235-265)
DetermineCellType(cell, column, is_header_row) ==
    LET value == cell.value
    IN  IF IsNone(value) \/ (value.t = "str" /\ IsBlankText(value.s)) THEN "empty"
        ELSE IF value.t = "str" /\ StartsWithEquals(value.s) THEN "formula"
        ELSE IF is_header_row /\ value.t = "str" THEN "header"
        ELSE IF value.t = "str" /\ (EndsWithColon(value.s) \/ IsLikelyLabel(value.s, cell, column))
        THEN "label"
        ELSE IF IsLikelyInput(cell) THEN "input"
        ELSE IF value.t = "str" THEN "label"
        ELSE "input"

\* one call of _determine_cell_type on a cell of a column
ClassifyValues ==
    {JNull, JNum(1), JDate} \cup
    {JStr(x) : x \in {"  ", "=SUM(A1:A10)", "Name:", "Owner: ", "Notes", "Acme LLC", LongText}}
InitClassify ==
    /\ \E value \in ClassifyValues, bold \in BOOLEAN, number_format \in {"General", "0.00"},
          column \in 1..3, is_header_row \in BOOLEAN :
           clsCall = [pc |-> "call", cell |-> SheetCell(value, bold, number_format),
                      column |-> column, is_header_row |-> is_header_row, type |-> "none"]
    /\ NavIdle
    /\ TransformIdle
    /\ FillIdle
    /\ AnalyzerIdle
    /\ CapacityIdle
    /\ HeaderIdle
    /\ AnalyzeIdle

Classify ==
    /\ clsCall.pc = "call"
    /\ clsCall' = [clsCall EXCEPT
                      !.type = DetermineCellType(clsCall.cell, clsCall.column,
                                                 clsCall.is_header_row),
                      !.pc = "done"]
    /\ UNCHANGED <<fillVars, navVars, trVars, anVars, capCall, hdrCall, anRun>>

NextClassify == Classify

SpecClassify == InitClassify /\ [][NextClassify]_vars

\* v and isinstance(v, str): a string that is not ""
IsText(value) == value.t = "str" /\ value.s # ""

\* sheet.max_row and sheet.max_column
MaxRow(sheet) == Len(sheet.cells)
MaxColumn(sheet) == IF Len(sheet.cells) = 0 THEN 0 ELSE Len(sheet.cells[1])

\* lines 332-335: row 1 holds text in one of the columns range(1, min(10, max_col + 1))
FirstRowHasText(sheet) ==
    /\ MaxRow(sheet) > 0
    /\ \E c \in 1..(IF MaxColumn(sheet) + 1 < 10 THEN MaxColumn(sheet) ELSE 9) :
           IsText(sheet.cells[1][c].value)

\* lines 338-350: more than half of the text cells of the row are bold
MostlyBold(sheet, row_idx) ==
    LET cols == 1..(IF MaxColumn(sheet) + 1 < 20 THEN MaxColumn(sheet) ELSE 19)
        text == {c \in cols : IsText(sheet.cells[row_idx][c].value)}
        bold == {c \in text : sheet.cells[row_idx][c].bold}
    IN  Cardinality(text) > 0 /\ 2 * Cardinality(bold) > Cardinality(text)

\* _detect_header_rows (lines 327-352)
DetectHeaderRows(sheet) ==
    (IF FirstRowHasText(sheet) THEN {1} ELSE {})
        \cup {r \in 1..(IF MaxRow(sheet) + 1 < 10 THEN MaxRow(sheet) ELSE 9) :
                  MostlyBold(sheet, r)}

\* one call of _detect_header_rows, on a sheet of 2 x 3 or of WideRows x
\* WideCols cells of which at most HeaderFilled hold something
WideRows == 11
WideCols == 21
HeaderFilled == 2
HeaderKinds ==
    {PlainCell(JStr("Unit")), SheetCell(JStr("Unit"), TRUE, "General"), PlainCell(JNum(1))}
HeaderPositions(rows, cols) ==
    IF rows = WideRows THEN {1, 9, 10} \X {9, 10, 19, 20} ELSE {1, 2} \X {1, 3}
HeaderSheet(rows, cols, filled) ==
    [cells |-> [r \in 1..rows |-> [c \in 1..cols |->
                   IF <<r, c>> \in DOMAIN filled THEN filled[<<r, c>>]
                   ELSE PlainCell(JNull)]],
     merged |-> {}]
InitHeader ==
    /\ \E dims \in {<<SheetMaxRow, SheetMaxCol>>, <<WideRows, WideCols>>} :
       \E ps \in {q \in SUBSET HeaderPositions(dims[1], dims[2]) :
                      Cardinality(q) <= HeaderFilled} :
       \E filled \in [ps -> HeaderKinds] :
           hdrCall = [pc |-> "call", sheet |-> HeaderSheet(dims[1], dims[2], filled),
                      header_rows |-> {}]
    /\ NavIdle
    /\ TransformIdle
    /\ FillIdle
    /\ AnalyzerIdle
    /\ CapacityIdle
    /\ ClassifyIdle
    /\ AnalyzeIdle

DetectHeaders ==
    /\ hdrCall.pc = "call"
    /\ hdrCall' = [hdrCall EXCEPT !.header_rows = DetectHeaderRows(hdrCall.sheet),
                                  !.pc = "done"]
    /\ UNCHANGED <<fillVars, navVars, trVars, anVars, capCall, clsCall, anRun>>

NextHeader == DetectHeaders

SpecHeader == InitHeader /\ [][NextHeader]_vars

\* lines 186-193: the merged ranges that hold the cell
RangesOf(sheet, row, col) == {rg \in sheet.merged : InRange(row, col, rg)}

\* a faulty variant: no cell is skipped for being inside a merged range
NeverSlave(sheet, row, col) == FALSE

\* lines 187-192: the cell lies in a merged range and is not its start cell
IsSlave(sheet, row, col) ==
    /\ RangesOf(sheet, row, col) # {}
    /\ StartCell(CHOOSE rg \in RangesOf(sheet, row, col) : TRUE) # Coordinate(row, col)

\* lines 202-225: the record of a classified cell
CellInfo(sheet, row, col, cell_type) ==
    [cell |-> Coordinate(row, col), row |-> row, column |-> col, type |-> cell_type,
     is_merged |-> RangesOf(sheet, row, col) # {},
     merge_master |-> IF RangesOf(sheet, row, col) # {}
                      THEN Some(StartCell(CHOOSE rg \in RangesOf(sheet, row, col) : TRUE))
                      ELSE None,
     text |-> IF cell_type \in {"label", "header"}
              THEN Some(sheet.cells[row][col].value.s) ELSE None,
     label |-> None, label_cell |-> None]

\* _analyze_cell (lines 170-233): None, or the record of the cell
AnalyzeCell(sheet, row, col, is_header_row) ==
    IF IsSlave(sheet, row, col) THEN None
    ELSE LET cell_type == DetermineCellType(sheet.cells[row][col], col, is_header_row)
         IN  IF cell_type = "empty" THEN None
             ELSE Some(CellInfo(sheet, row, col, cell_type))

\* lines 150-159: the record joins the list of its type
Categorize(schema, cell_info) ==
    CASE cell_info.type = "formula" ->
            [schema EXCEPT !.formula_fields = Append(@, cell_info)]
      [] cell_info.type = "input" -> [schema EXCEPT !.input_fields = Append(@, cell_info)]
      [] cell_info.type = "header" -> [schema EXCEPT !.headers = Append(@, cell_info)]
      [] cell_info.type = "label" -> [schema EXCEPT !.labels = Append(@, cell_info)]
      [] OTHER -> schema

\* _find_label_at (lines 394-404): the first label at the position, None if none
FindLabelAt(labels, row, col) ==
    LET hits == {i \in 1..Len(labels) : labels[i].row = row /\ labels[i].column = col}
    IN  IF hits = {} THEN None ELSE Some(labels[SetMin(hits)])

\* next(h for h in headers if h["column"] == col), None if none
ColumnHeader(headers, col) ==
    LET hits == {i \in 1..Len(headers) : headers[i].column = col}
    IN  IF hits = {} THEN None ELSE Some(headers[SetMin(hits)])

\* lines 372-373, 379-380, 389-390: the text and the cell of what was found
WithLabel(field, found) ==
    [field EXCEPT !.label = Val(found).text, !.label_cell = Some(Val(found).cell)]

\* a faulty variant: the label above is looked for before the label to the left
AssociateFieldAboveFirst(field, labels, headers) ==
    IF IsSome(FindLabelAt(labels, field.row - 1, field.column))
    THEN WithLabel(field, FindLabelAt(labels, field.row - 1, field.column))
    ELSE IF IsSome(FindLabelAt(labels, field.row, field.column - 1))
    THEN WithLabel(field, FindLabelAt(labels, field.row, field.column - 1))
    ELSE IF IsSome(ColumnHeader(headers, field.column))
    THEN WithLabel(field, ColumnHeader(headers, field.column))
    ELSE field

\* lines 365-391: left label, else label above, else header of the column
AssociateField(field, labels, headers) ==
    IF IsSome(FindLabelAt(labels, field.row, field.column - 1))
    THEN WithLabel(field, FindLabelAt(labels, field.row, field.column - 1))
    ELSE IF IsSome(FindLabelAt(labels, field.row - 1, field.column))
    THEN WithLabel(field, FindLabelAt(labels, field.row - 1, field.column))
    ELSE IF IsSome(ColumnHeader(headers, field.column))
    THEN WithLabel(field, ColumnHeader(headers, field.column))
    ELSE field

\* _associate_labels (lines 354-392)
AssociateLabels(input_fields, labels, headers) ==
    [i \in 1..Len(input_fields) |-> AssociateField(input_fields[i], labels, headers)]

\* the worksheets of the model: at most MaxFilled cells hold something, and
\* the merged ranges do not overlap
MaxFilled == 2
CellKinds ==
    {PlainCell(JStr("  ")), PlainCell(JStr("=SUM(A1:A10)")), PlainCell(JStr("Name:")),
     PlainCell(JStr("Acme LLC")), SheetCell(JStr("Acme LLC"), TRUE, "General"),
     SheetCell(JStr("Acme LLC"), FALSE, "0.00"), PlainCell(JNum(1)),
     PlainCell(JStr("Notes"))}
Positions == (1..SheetMaxRow) \X (1..SheetMaxCol)
MergedChoices ==
    { {}, {CellRange(1, 1, 1, 2)}, {CellRange(1, 2, 2, 3)},
      {CellRange(2, 1, 2, 2), CellRange(1, 3, 2, 3)} }
SheetWith(filled, merged) ==
    [cells |-> [r \in 1..SheetMaxRow |-> [c \in 1..SheetMaxCol |->
                   IF <<r, c>> \in DOMAIN filled THEN filled[<<r, c>>]
                   ELSE PlainCell(JNull)]],
     merged |-> merged]
Sheets ==
    {SheetWith(filled, merged) :
        filled \in UNION {[ps -> CellKinds] :
                             ps \in {q \in SUBSET Positions : Cardinality(q) <= MaxFilled}},
        merged \in MergedChoices}

InitAnalyzer ==
    /\ anSheet \in Sheets
    /\ anSchema = EmptySchema
    /\ anRow = 1
    /\ anCol = 1
    /\ anPc = "cells"
    /\ NavIdle
    /\ TransformIdle
    /\ FillIdle
    /\ CapacityIdle
    /\ HeaderIdle
    /\ ClassifyIdle
    /\ AnalyzeIdle

\* lines 145-159: one turn of the cell loop
AnalyzeNextCell ==
    /\ anPc = "cells"
    /\ anRow <= MaxRow(anSheet)
    /\ \E cell_info \in {AnalyzeCell(anSheet, anRow, anCol, anRow \in DetectHeaderRows(anSheet))} :
           anSchema' = IF IsSome(cell_info) THEN Categorize(anSchema, Val(cell_info))
                       ELSE anSchema
    /\ IF anCol < MaxColumn(anSheet)
       THEN anCol' = anCol + 1 /\ anRow' = anRow
       ELSE anCol' = 1 /\ anRow' = anRow + 1
    /\ UNCHANGED <<anSheet, anPc>>
    /\ UNCHANGED <<fillVars, navVars, trVars, callVars>>

\* lines 161-168: after the last cell the labels are associated
Associate ==
    /\ anPc = "cells"
    /\ anRow > MaxRow(anSheet)
    /\ anSchema' = [anSchema EXCEPT !.input_fields =
                       AssociateLabels(@, anSchema.labels, anSchema.headers)]
    /\ anPc' = "done"
    /\ UNCHANGED <<anSheet, anRow, anCol>>
    /\ UNCHANGED <<fillVars, navVars, trVars, callVars>>

NextAnalyzer == AnalyzeNextCell \/ Associate

SpecAnalyzer == InitAnalyzer /\ [][NextAnalyzer]_vars

\* _analyze_sheet on a sheet of three rows and two columns without merged
\* ranges, of which at most AssocFilled cells hold a text or a number
AssocFilled == 3
AssocKinds == {PlainCell(JStr("Name:")), PlainCell(JStr("Notes")), PlainCell(JNum(1))}
InitAssociate ==
    /\ \E ps \in {q \in SUBSET ((1..3) \X (1..2)) : Cardinality(q) <= AssocFilled} :
       \E filled \in [ps -> AssocKinds] :
           anSheet = HeaderSheet(3, 2, filled)
    /\ anSchema = EmptySchema
    /\ anRow = 1
    /\ anCol = 1
    /\ anPc = "cells"
    /\ NavIdle
    /\ TransformIdle
    /\ FillIdle
    /\ CapacityIdle
    /\ HeaderIdle
    /\ ClassifyIdle
    /\ AnalyzeIdle

SpecAssociate == InitAssociate /\ [][NextAnalyzer]_vars

(***************************************************************************)
(* analyze (lines 60-106)                                                  *)
(***************************************************************************)
\* lines 145-159: the cell loop, row by row, from the k-th cell on
RECURSIVE CellLoop(_, _, _)
CellLoop(sheet, k, schema) ==
    IF k > MaxRow(sheet) * MaxColumn(sheet) THEN schema
    ELSE LET row == ((k - 1) \div MaxColumn(sheet)) + 1
             col == ((k - 1) % MaxColumn(sheet)) + 1
             cell_info == AnalyzeCell(sheet, row, col, row \in DetectHeaderRows(sheet))
         IN  CellLoop(sheet, k + 1,
                      IF IsSome(cell_info) THEN Categorize(schema, Val(cell_info))
                      ELSE schema)

\* _analyze_sheet (lines 108-168): a chartsheet has no dimensions, so line
\* 112 raises; a worksheet gives its name and its four lists
AnalyzeSheet(ws) ==
    IF ws.kind = "chartsheet" THEN Raise
    ELSE LET lists == CellLoop(ws.sheet, 1, EmptySchema)
         IN  [name |-> ws.title,
              input_fields |-> AssociateLabels(lists.input_fields, lists.labels,
                                               lists.headers),
              formula_fields |-> lists.formula_fields,
              labels |-> lists.labels,
              headers |-> lists.headers]

\* the sum of the lengths of one list over the sheets
RECURSIVE TotalOf(_, _)
TotalOf(sheets, field) ==
    IF sheets = <<>> THEN 0 ELSE Len(Head(sheets)[field]) + TotalOf(Tail(sheets), field)

\* _generate_summary (lines 453-481)
GenerateSummary(sheets) ==
    [total_input_fields |-> TotalOf(sheets, "input_fields"),
     total_formula_fields |-> TotalOf(sheets, "formula_fields"),
     total_labels |-> TotalOf(sheets, "labels"),
     sheets |-> [i \in 1..Len(sheets) |->
                    [name |-> sheets[i].name,
                     input_fields |-> Len(sheets[i].input_fields),
                     formula_fields |-> Len(sheets[i].formula_fields),
                     labels |-> Len(sheets[i].labels)]]]

\* lines 103-106: the error object; lines 78-99: the schema
AnalyzeError == [kind |-> "error"]
AnalyzeSchema(sheet_count, sheets) ==
    [kind |-> "schema", sheet_count |-> sheet_count, sheets |-> sheets,
     summary |-> GenerateSummary(sheets)]

\* the workbooks of the model: up to MaxSheets sheets, each a worksheet of one
\* row with the label A1 and the input B1, an empty worksheet, or a chartsheet
MaxSheets == 3
SheetTitles == <<"Inputs", "Rents", "Chart", "Notes", "Extra">>
LabelAndInput ==
    (<<1, 1>> :> PlainCell(JStr("Name:"))) @@ (<<1, 2>> :> PlainCell(JNum(1)))
SheetChoices ==
    {[kind |-> "worksheet", sheet |-> HeaderSheet(1, 2, LabelAndInput)],
     [kind |-> "worksheet", sheet |-> HeaderSheet(1, 2, <<>>)],
     [kind |-> "chartsheet", sheet |-> <<>>]}
Titled(choices) ==
    [i \in 1..Len(choices) |->
        [kind |-> choices[i].kind, sheet |-> choices[i].sheet, title |-> SheetTitles[i]]]

InitAnalyze ==
    /\ \E n \in 0..MaxSheets :
       \E choices \in [1..n -> SheetChoices], openable \in BOOLEAN :
           anRun = [pc |-> "load", openable |-> openable, sheets |-> Titled(choices),
                    idx |-> 0, schema |-> <<>>, result |-> [kind |-> "none"]]
    /\ NavIdle
    /\ TransformIdle
    /\ FillIdle
    /\ AnalyzerIdle
    /\ CapacityIdle
    /\ HeaderIdle
    /\ ClassifyIdle

\* lines 75-84: load_workbook raises, or the schema starts with no sheets
AnalyzeLoad ==
    /\ anRun.pc = "load"
    /\ anRun' = IF anRun.openable
                THEN [anRun EXCEPT !.pc = "sheets", !.idx = 1]
                ELSE [anRun EXCEPT !.pc = "done", !.result = AnalyzeError]
    /\ UNCHANGED <<fillVars, navVars, trVars, anVars, capCall, hdrCall, clsCall>>

\* lines 87-91: one turn of the sheet loop; an exception of _analyze_sheet
\* reaches the except clause of analyze (lines 101-106)
AnalyzeSheetStep ==
    /\ anRun.pc = "sheets"
    /\ anRun.idx <= Len(anRun.sheets)
    /\ \E sheet_schema \in {AnalyzeSheet(anRun.sheets[anRun.idx])} :
           anRun' = IF sheet_schema = Raise
                    THEN [anRun EXCEPT !.pc = "done", !.result = AnalyzeError]
                    ELSE [anRun EXCEPT !.schema = Append(@, sheet_schema),
                                       !.idx = @ + 1]
    /\ UNCHANGED <<fillVars, navVars, trVars, anVars, capCall, hdrCall, clsCall>>

\* lines 93-99: the summary is added and the schema is returned
AnalyzeFinish ==
    /\ anRun.pc = "sheets"
    /\ anRun.idx > Len(anRun.sheets)
    /\ anRun' = [anRun EXCEPT !.pc = "done",
                              !.result = AnalyzeSchema(Len(anRun.sheets), anRun.schema)]
    /\ UNCHANGED <<fillVars, navVars, trVars, anVars, capCall, hdrCall, clsCall>>

NextAnalyze == AnalyzeLoad \/ AnalyzeSheetStep \/ AnalyzeFinish

SpecAnalyze == InitAnalyze /\ [][NextAnalyze]_vars

(***************************************************************************)
(* The capacity scan of _fill_array_data on a tall sheet (lines 271-292)   *)
(***************************************************************************)
\* the rows of the tall sheet
TallRows == 56

\* a sheet whose anchor column holds other in every row but the rows of marks
TallSheet(marks, text, other) ==
    [r \in 1..TallRows |->
        [c \in Cols |-> IF c = "B" THEN (IF r \in marks THEN JStr(text) ELSE other)
                        ELSE JNull]]

\* the rows that can hold the first Total label: none, around row_start, and
\* around the end of the window
MarkRows == {0, 1, 2, 3, 5, 6, 49, 50, 51, 52, 53, 54, 55, 56}

InitCapacity ==
    /\ \E first \in MarkRows, second \in BOOLEAN, text \in {"Total", " TOTALS "},
          other \in {JNull, JStr("Unit"), JStr("Subtotal"), JNum(5)},
          row_start \in {1, 2, 5}, max_rows \in {None, Some(2)} :
           capCall = [pc |-> "input",
                      sheet |-> TallSheet((IF first = 0 THEN {} ELSE {first})
                                             \cup (IF second /\ first # 0 /\ first < TallRows
                                                   THEN {first + 1} ELSE {}),
                                          text, other),
                      row_start |-> row_start, max_rows |-> max_rows,
                      total_row |-> 0, rows_in_table |-> 0]
    /\ NavIdle
    /\ TransformIdle
    /\ FillIdle
    /\ AnalyzerIdle
    /\ HeaderIdle
    /\ ClassifyIdle
    /\ AnalyzeIdle

\* lines 271-292: total_row and rows_in_table of the sheet
CapacityScan ==
    /\ capCall.pc = "input"
    /\ \E total_row \in {FindTotalRow(capCall.sheet, capCall.row_start)} :
           capCall' = [capCall EXCEPT
                          !.total_row = total_row,
                          !.rows_in_table =
                              RowsInTable(total_row, capCall.row_start,
                                          GetOr(capCall.max_rows, DefaultMaxRows)),
                          !.pc = "done"]
    /\ UNCHANGED <<fillVars, navVars, trVars, anVars, hdrCall, clsCall, anRun>>

NextCapacity == CapacityScan

SpecCapacity == InitCapacity /\ [][NextCapacity]_vars

(***************************************************************************)
(* The fill run: fill (lines 63-168)                                       *)
(***************************************************************************)
kStructuredData == <<"s", "t", "r", "u", "c", "t", "u", "r", "e", "d", "_", "d", "a", "t", "a">>
\* line 105: "structured_data[0]"
DefaultJsonRoot == kStructuredData \o <<"[", "0", "]">>

\* no output_path, an output_path of its own, the path of the template
OutputPaths == {None, Some(GivenOutputPath), Some(TemplatePath)}

SheetConfig == cfg.sheets[si]
\* a faulty variant: the entries of an array sheet skip the scalar pass
MappingsOfScalarSheets ==
    IF IsSome(SheetConfig.array_source) THEN <<>> ELSE GetOr(SheetConfig.mappings, <<>>)

\* lines 140-141: the entries of the sheet's "mappings" list
Mappings == GetOr(SheetConfig.mappings, <<>>)

\* a faulty variant: whatever json_root gives is taken as the data
RootAlwaysResolved(root) == TRUE

\* lines 106-112: the data root resolved (an exception in the lookup fails the run)
RootResolved(root) == ~IsRaise(root) /\ ~IsNone(root)

\* lines 82-123: mappings present, template copied and loaded, data root resolved.
\* tmpl is the content of the file at TemplatePath, outFile the content of the
\* file at any other output path.
Load ==
    /\ pc = "Loading"
    /\ IF ~cfg.loaded
       THEN /\ pc' = "Failed"
            /\ UNCHANGED <<outFile, wb, data, report>>
       ELSE IF SameFile(TemplatePath, OutputPath)
       THEN /\ pc' = "Failed"
            /\ UNCHANGED <<outFile, wb, data, report>>
       ELSE /\ outFile' = IF OutputPath = TemplatePath THEN outFile ELSE Some(tmpl)
            /\ IF ~call.openable
               THEN /\ pc' = "Failed"
                    /\ UNCHANGED <<wb, data, report>>
               ELSE LET root == NavigateJsonPath(doc, GetOr(cfg.json_root, DefaultJsonRoot))
                    IN  /\ wb' = tmpl
                        /\ IF RootResolved(root)
                           THEN /\ pc' = "Sheet"
                                /\ data' = root
                                /\ report' = EmptyReport
                           ELSE /\ pc' = "Failed"
                                /\ UNCHANGED <<data, report>>
    /\ si' = 1
    /\ mi' = 1
    /\ arr' = NoArr
    /\ result' = NoResult
    /\ ret' = IF pc' = "Failed" THEN ErrorResult ELSE ret
    /\ UNCHANGED <<call, cfg, doc, tmpl, run, navVars, trVars, anVars, callVars>>

\* a faulty variant: the workbook is saved when the run fails
FileSavedOnError(file, workbook) == IF IsSome(file) THEN Some(workbook) ELSE file

\* lines 163-168: the except branch returns the error dict and saves nothing
FileOnError(file, workbook) == file

\* a faulty variant: every configured sheet is taken to be in the workbook
SheetAlwaysInWorkbook(sheet_name, workbook) == TRUE

\* line 129: sheet_name in workbook.sheetnames
SheetInWorkbook(sheet_name, workbook) == sheet_name \in DOMAIN workbook

\* lines 128-135: the sheet of the config is not in the workbook
SheetMissing ==
    /\ pc = "Sheet"
    /\ si <= Len(cfg.sheets)
    /\ ~SheetInWorkbook(SheetConfig.name, wb)
    /\ report' = [report EXCEPT !.errors =
                     Append(@, Outcome("error", SheetConfig.name, None, JNull,
                                       "Sheet not found in template"))]
    /\ si' = si + 1
    /\ UNCHANGED <<call, ret, cfg, doc, tmpl, outFile, wb, data, result, pc, mi, arr, run, navVars, trVars, anVars, callVars>>

\* lines 128-137: the sheet is in the workbook
SheetFound ==
    /\ pc = "Sheet"
    /\ si <= Len(cfg.sheets)
    /\ SheetInWorkbook(SheetConfig.name, wb)
    /\ pc' = "Mappings"
    /\ mi' = 1
    /\ UNCHANGED <<call, ret, cfg, doc, tmpl, outFile, wb, data, report, result, si, arr, run, navVars, trVars, anVars, callVars>>

\* lines 141-143: one mapping of the sheet through _fill_cell and _add_to_report
FillCell ==
    /\ pc = "Mappings"
    /\ mi <= Len(Mappings)
    /\ \E fc \in {FillCellCall(wb[SheetConfig.name], Mappings[mi], data, doc)} :
           IF fc.raised
           THEN /\ pc' = "Failed"
                /\ UNCHANGED <<wb, report, result, mi>>
           ELSE /\ wb' = [wb EXCEPT ![SheetConfig.name] = fc.g]
                /\ result' = [fc.res EXCEPT !.sheet = SheetConfig.name]
                /\ report' = AddToReport(report, SheetConfig.name, fc.res)
                /\ mi' = mi + 1
                /\ pc' = pc
    /\ UNCHANGED <<call, cfg, doc, tmpl, data, si, arr, run, navVars, trVars, anVars, callVars>>
    /\ outFile' = IF pc' = "Failed" THEN FileOnError(outFile, wb') ELSE outFile
    /\ ret' = IF pc' = "Failed" THEN ErrorResult ELSE ret

\* lines 140-147: after the last mapping, the array pass or the next sheet
MappingsDone ==
    /\ pc = "Mappings"
    /\ mi > Len(Mappings)
    /\ IF IsSome(SheetConfig.array_source)
       THEN pc' = "Array" /\ si' = si
       ELSE pc' = "Sheet" /\ si' = si + 1
    /\ UNCHANGED <<call, ret, cfg, doc, tmpl, outFile, wb, data, report, result, mi, arr, run, navVars, trVars, anVars, callVars>>

\* lines 262-317: find the Total row, clear the capacity rows, resolve the array
ArrayClear ==
    /\ pc = "Array"
    /\ LET sheet == wb[SheetConfig.name]
           row_start == GetOr(SheetConfig.row_start, DefaultRowStart)
           clear_columns == IF IsSome(SheetConfig.clear_columns)
                            THEN Val(SheetConfig.clear_columns)
                            ELSE MappedColumns(Mappings)
           total_row == FindTotalRow(sheet, row_start)
           max_rows == RowsInTable(total_row, row_start,
                                   GetOr(SheetConfig.max_rows, DefaultMaxRows))
           array_data == NavigateJsonPath(data, Val(SheetConfig.array_source))
       IN  /\ wb' = [wb EXCEPT ![SheetConfig.name] =
                        ClearRange(sheet, clear_columns, row_start, max_rows)]
           /\ arr' = [NoArr EXCEPT !.total_row = total_row, !.max_rows = max_rows,
                                   !.row_start = row_start,
                                   !.array_data = IF IsList(array_data) THEN array_data.v
                                                  ELSE <<>>]
           /\ IF IsRaise(array_data)
              THEN pc' = "Failed" /\ si' = si
              ELSE IF ~Truthy(array_data) \/ ~IsList(array_data)
              THEN pc' = "Sheet" /\ si' = si + 1
              ELSE pc' = "Rows" /\ si' = si
    /\ UNCHANGED <<call, cfg, doc, tmpl, data, report, result, mi, run, navVars, trVars, anVars, callVars>>
    /\ outFile' = IF pc' = "Failed" THEN FileOnError(outFile, wb') ELSE outFile
    /\ ret' = IF pc' = "Failed" THEN ErrorResult ELSE ret

\* line 321: the sheet row of the source row at index row_idx
CurrentRow(row_start, row_idx) == row_start + row_idx

\* lines 320-389: one source row
ArrayRow ==
    /\ pc = "Rows"
    /\ arr.row_idx < Len(arr.array_data)
    /\ LET row_data == arr.array_data[arr.row_idx + 1]
           current_row == CurrentRow(arr.row_start, arr.row_idx)
       IN  IF ~IsDict(row_data)
           THEN /\ pc' = "Failed"
                /\ UNCHANGED <<wb, report, arr>>
           ELSE IF IsSummaryRow(row_data)
           THEN /\ arr' = [arr EXCEPT !.row_idx = @ + 1]
                /\ UNCHANGED <<wb, report, pc>>
           ELSE \E st \in {WriteColumns(
                              RowState(wb[SheetConfig.name], report.filled_fields,
                                       report.errors, FALSE),
                              row_data, current_row, Mappings, SheetConfig.name)} :
                    /\ wb' = [wb EXCEPT ![SheetConfig.name] = st.g]
                    /\ report' = [report EXCEPT !.filled_fields = st.filled,
                                                !.errors = st.errors]
                    /\ arr' = [arr EXCEPT !.row_idx = @ + 1, !.rows_to_fill = @ + 1]
                    /\ pc' = IF st.raised THEN "Failed" ELSE pc
    /\ UNCHANGED <<call, cfg, doc, tmpl, data, result, si, mi, run, navVars, trVars, anVars, callVars>>
    /\ outFile' = IF pc' = "Failed" THEN FileOnError(outFile, wb') ELSE outFile
    /\ ret' = IF pc' = "Failed" THEN ErrorResult ELSE ret

\* a faulty variant: the deletion starts one row too high
FirstEmptyRowOffByOne(row_start, rows_to_fill) == row_start + rows_to_fill - 1

\* line 394
FirstEmptyRow(row_start, rows_to_fill) == row_start + rows_to_fill

\* lines 391-397: delete the unused rows
ArrayDelete ==
    /\ pc = "Rows"
    /\ arr.row_idx = Len(arr.array_data)
    /\ IF GetOr(SheetConfig.delete_empty_rows, TRUE) /\ arr.rows_to_fill < arr.max_rows
       THEN /\ wb' = [wb EXCEPT ![SheetConfig.name] =
                         DeleteRows(@, FirstEmptyRow(arr.row_start, arr.rows_to_fill),
                                    arr.max_rows - arr.rows_to_fill)]
            /\ arr' = [arr EXCEPT !.deleted = arr.max_rows - arr.rows_to_fill]
       ELSE UNCHANGED <<wb, arr>>
    /\ pc' = "Sheet"
    /\ si' = si + 1
    /\ UNCHANGED <<call, ret, cfg, doc, tmpl, outFile, data, report, result, mi, run, navVars, trVars, anVars, callVars>>

\* lines 149-161: save the workbook to the output path, return the report
Save ==
    /\ pc = "Sheet"
    /\ si > Len(cfg.sheets)
    /\ IF OutputPath = TemplatePath
       THEN tmpl' = wb /\ outFile' = outFile
       ELSE outFile' = Some(wb) /\ tmpl' = tmpl
    /\ ret' = SuccessResult(report)
    /\ pc' = "Done"
    /\ UNCHANGED <<call, cfg, doc, wb, data, report, result, si, mi, arr, run, navVars, trVars, anVars, callVars>>

MaxRuns == 2

\* fill is called again, with the output of the run as its template
Refill ==
    /\ pc = "Done"
    /\ run < MaxRuns
    /\ IsSome(outFile)
    /\ tmpl' = Val(outFile)
    /\ outFile' = None
    /\ ret' = NoReturn
    /\ pc' = "Loading"
    /\ run' = run + 1
    /\ UNCHANGED <<call, cfg, doc, wb, data, report, result, si, mi, arr, navVars, trVars, anVars, callVars>>

(***************************************************************************)
(* Templates, documents and mapping configs of the bounded runs            *)
(***************************************************************************)
RowStart == 2
MaxCap == 3
MaxSrc == 3

kOwner == <<"o", "w", "n", "e", "r">>
kName == <<"n", "a", "m", "e">>
kRate == <<"r", "a", "t", "e">>
kMeta == <<"m", "e", "t", "a">>
kUnits == <<"u", "n", "i", "t", "s">>
kRent == <<"r", "e", "n", "t">>
pOwnerName == kOwner \o <<".">> \o kName
pMetaName == kMeta \o <<".">> \o kName
pMetaRate == kMeta \o <<".">> \o kRate

\* the sheet "Summary": B1 is the target of the scalar mappings
SummaryGrid(b1) == [BlankGrid EXCEPT ![1] = [BlankRow EXCEPT !["B"] = b1]]

RowFormula(r) == "=C" \o ToString(r) \o "*2"

\* the sheet "UnitMix": a header, cap capacity rows from RowStart, the Total row
\* (when total is set), a footer row
UnitMixGrid(cap, total, formulaColumn) ==
    LET totalAt == IF IsSome(total) THEN RowStart + cap ELSE 0
        footerAt == IF IsSome(total) THEN RowStart + cap + 1 ELSE RowStart + cap
    IN  [r \in 1..GridRows |->
            IF r < RowStart
            THEN [BlankRow EXCEPT !["B"] = JStr("Unit")]
            ELSE IF r < RowStart + cap
            THEN [c \in Cols |->
                    CASE c = "B" -> JStr("Unit")
                      [] c = "C" -> JNum(100 + r)
                      [] OTHER -> IF formulaColumn THEN JStr(RowFormula(r)) ELSE JNum(200 + r)]
            ELSE IF r = totalAt
            THEN [c \in Cols |->
                    CASE c = "B" -> JStr(Val(total))
                      [] c = "C" -> JStr("=SUM(C)")
                      [] OTHER -> JNum(999)]
            ELSE IF r = footerAt
            THEN [c \in Cols |->
                    CASE c = "B" -> JStr("Notes")
                      [] c = "C" -> JNum(555)
                      [] OTHER -> JStr("=NOW()")]
            ELSE BlankRow]

Workbook(summary, unitMix) == [n \in {"Summary", "UnitMix"} |-> IF n = "Summary" THEN summary ELSE unitMix]

\* source rows: the unit row of source position i, and the two summary rows
UnitRow(i) == JDict(kBed :> JNum(i) @@ kBath :> JNum(1) @@ kName :> JNum(300 + i)
                    @@ kRent :> JNum(10 * i))
TotalSummaryRow == JDict(kBed :> JStr("Total") @@ kBath :> JNull @@ kName :> JNum(900)
                         @@ kRent :> JNum(990))
AllSummaryRow == JDict(kBed :> JStr("All 2 Bed") @@ kBath :> JNull @@ kName :> JNum(800)
                       @@ kRent :> JNum(880))
RowKinds == {"unit", "total", "all"}
SourceRow(kind, i) == CASE kind = "unit" -> UnitRow(i)
                        [] kind = "total" -> TotalSummaryRow
                        [] OTHER -> AllSummaryRow
KindSeqs == UNION {[1..n -> RowKinds] : n \in 0..MaxSrc}
SourceArray(kinds) == JList([i \in 1..Len(kinds) |-> SourceRow(kinds[i], i)])

\* the records at json_root
Owners == {JDict(kName :> JStr("Acme LLC")), JDict(EmptyMap)}
Record(owner, units) ==
    JDict(kOwner :> owner @@ kRate :> JStr("97") @@ kUnits :> units)
RecordWithoutUnits(owner) == JDict(kOwner :> owner @@ kRate :> JStr("97"))
Document(rec) ==
    JDict(kStructuredData :> JList(<<rec>>)
          @@ kMeta :> JDict(kName :> JStr("Fallback Co") @@ kRate :> JStr("12")))

\* the column mappings of the sheet "UnitMix"
ColumnMappings ==
    << [NoMapping EXCEPT !.column = Some("B"), !.json_field = Some(kName)],
       [NoMapping EXCEPT !.column = Some("C"), !.json_field = Some(kRent)],
       [NoMapping EXCEPT !.column = Some("D"), !.transform = Some("bed_bath_label")] >>

UnitMixConfig(max_rows, delete_empty_rows) ==
    [NoSheetConfig EXCEPT !.name = "UnitMix", !.mappings = Some(ColumnMappings),
                          !.array_source = Some(kUnits), !.row_start = Some(RowStart),
                          !.max_rows = max_rows, !.delete_empty_rows = delete_empty_rows]

\* the scalar mappings of the sheet "Summary"
ScalarMappings ==
    { [NoMapping EXCEPT !.cell = c, !.json_path = p, !.source = s, !.fallback_path = f,
                        !.fallback_transform = ft, !.transform = t,
                        !.json_root_override = o] :
        c \in {Some(Ref("B", 1)), Some(BadRef)},
        p \in {None, Some(pOwnerName), Some(kOwner), Some(kRate)},
        s \in {None, Some("external")},
        f \in {None, Some(pMetaName), Some(pMetaRate)},
        ft \in {None, Some("divide_by_100")},
        t \in {None, Some("divide_by_100"), Some("round_up")},
        o \in {None, Some("")} }

SummaryConfig(m) == [NoSheetConfig EXCEPT !.name = "Summary", !.mappings = Some(<<m>>)]

B1Values == {JNull, JNum(1), JStr("=SUM(A1:A10)")}

StartRun ==
    /\ outFile = None
    /\ wb = <<>>
    /\ data = JNull
    /\ report = EmptyReport
    /\ result = NoResult
    /\ pc = "Loading"
    /\ si = 1
    /\ mi = 1
    /\ arr = NoArr
    /\ run = 1
    /\ ret = NoReturn
    /\ NavIdle
    /\ TransformIdle
    /\ AnalyzerIdle
    /\ CapacityIdle
    /\ HeaderIdle
    /\ ClassifyIdle
    /\ AnalyzeIdle

\* one scalar mapping on the sheet "Summary"
ScalarRuns ==
    \E m \in ScalarMappings, owner \in Owners, b1 \in B1Values :
        /\ cfg = [loaded |-> TRUE, json_root |-> None, sheets |-> <<SummaryConfig(m)>>]
        /\ doc = Document(Record(owner, SourceArray(<<"unit">>)))
        /\ tmpl = Workbook(SummaryGrid(b1), UnitMixGrid(1, Some("Total"), TRUE))
        /\ call = [NoCall EXCEPT !.output_path = Some(GivenOutputPath)]

\* the array block of the sheet "UnitMix"
ArrayRuns ==
    \E cap \in 0..MaxCap, total \in {None, Some("Total"), Some(" TOTALS ")},
       formulaColumn \in BOOLEAN, kinds \in KindSeqs,
       max_rows \in {None, Some(2)}, delete_empty_rows \in {None, Some(FALSE)} :
        /\ cfg = [loaded |-> TRUE, json_root |-> None,
                  sheets |-> <<UnitMixConfig(max_rows, delete_empty_rows)>>]
        /\ doc = Document(Record(JDict(EmptyMap), SourceArray(kinds)))
        /\ tmpl = Workbook(SummaryGrid(JNull), UnitMixGrid(cap, total, formulaColumn))
        /\ call = [NoCall EXCEPT !.output_path = Some(GivenOutputPath)]

\* several sheets, one of them missing from the workbook; no array in the data
SheetRuns ==
    \E owner \in Owners, b1 \in B1Values, output_path \in OutputPaths :
        /\ cfg = [loaded |-> TRUE, json_root |-> None,
                  sheets |-> << [NoSheetConfig EXCEPT !.name = "Rents"],
                                SummaryConfig([NoMapping EXCEPT !.cell = Some(Ref("B", 1)),
                                                                !.json_path = Some(pOwnerName)]),
                                UnitMixConfig(None, None) >>]
        /\ doc = Document(RecordWithoutUnits(owner))
        /\ tmpl = Workbook(SummaryGrid(b1), UnitMixGrid(2, Some("Total"), TRUE))
        /\ call = [NoCall EXCEPT !.output_path = output_path]

\* the structural cases: no mapping config, a json_root that resolves to another
\* record or to nothing, a template file that is no workbook
StructuralRuns ==
    \E loaded \in BOOLEAN, json_root \in {None, Some(kMeta), Some(kOwner)},
       openable \in BOOLEAN, output_path \in OutputPaths :
        /\ cfg = [loaded |-> loaded, json_root |-> json_root,
                  sheets |-> IF loaded
                             THEN <<SummaryConfig([NoMapping EXCEPT !.cell = Some(Ref("B", 1)),
                                                                    !.json_path = Some(kName)])>>
                             ELSE <<>>]
        /\ doc = Document(Record(JDict(EmptyMap), SourceArray(<<>>)))
        /\ tmpl = Workbook(SummaryGrid(JNum(1)), UnitMixGrid(1, Some("Total"), TRUE))
        /\ call = [output_path |-> output_path, openable |-> openable]

\* source rows for the multi-field transforms: a complete row, a row whose bath
\* is null, a row without availability.units, a row whose availability.units is
\* the text "n/a", and a row that is a string instead of a mapping
kUnitMix == <<"u", "n", "i", "t", "M", "i", "x">>
kAvailability == <<"a", "v", "a", "i", "l", "a", "b", "i", "l", "i", "t", "y">>
CompleteRow(i) ==
    JDict(UnitRow(i).v @@ kUnitMix :> JDict(kUnits :> JNum(5))
                       @@ kAvailability :> JDict(kUnits :> JNum(2)))
MultiFieldKinds == {"complete", "nobath", "noavail", "badavail", "text"}
MultiFieldRow(kind, i) ==
    CASE kind = "complete" -> CompleteRow(i)
      [] kind = "nobath" -> JDict([CompleteRow(i).v EXCEPT ![kBath] = JNull])
      [] kind = "noavail" -> JDict([CompleteRow(i).v EXCEPT ![kAvailability] = JDict(EmptyMap)])
      [] kind = "badavail" ->
            JDict([CompleteRow(i).v EXCEPT ![kAvailability] = JDict(kUnits :> JStr("n/a"))])
      [] OTHER -> JStr("n/a")

MultiFieldColumns ==
    << [NoMapping EXCEPT !.column = Some("B"), !.json_field = Some(kName)],
       [NoMapping EXCEPT !.column = Some("C"), !.transform = Some("calc_occupied")],
       [NoMapping EXCEPT !.column = Some("D"), !.transform = Some("bed_bath_label")] >>

\* an array block whose columns use the multi-field transforms, followed by a
\* sheet with one scalar mapping
MultiFieldRuns ==
    \E kinds \in UNION {[1..n -> MultiFieldKinds] : n \in 1..2} :
        /\ cfg = [loaded |-> TRUE, json_root |-> None,
                  sheets |-> << [NoSheetConfig EXCEPT !.name = "UnitMix",
                                                      !.mappings = Some(MultiFieldColumns),
                                                      !.array_source = Some(kUnits),
                                                      !.row_start = Some(RowStart)],
                                SummaryConfig([NoMapping EXCEPT !.cell = Some(Ref("B", 1)),
                                                                !.json_path = Some(kRate)]) >>]
        /\ doc = Document(Record(JDict(EmptyMap),
                                 JList([i \in 1..Len(kinds) |-> MultiFieldRow(kinds[i], i)])))
        /\ tmpl = Workbook(SummaryGrid(JNull), UnitMixGrid(2, Some("Total"), FALSE))
        /\ call = [NoCall EXCEPT !.output_path = Some(GivenOutputPath)]

\* an array block with two mapped columns and declared clear columns
ClearRuns ==
    \E cap \in 0..MaxCap, total \in {None, Some("Total")}, formulaColumn \in BOOLEAN,
       clear_columns \in {None, Some({}), Some({"D"}), Some({"C", "D"})},
       max_rows \in {None, Some(2)} :
        /\ cfg = [loaded |-> TRUE, json_root |-> None,
                  sheets |-> << [NoSheetConfig EXCEPT
                                    !.name = "UnitMix",
                                    !.mappings = Some(SubSeq(ColumnMappings, 1, 2)),
                                    !.array_source = Some(kUnits),
                                    !.row_start = Some(RowStart),
                                    !.max_rows = max_rows,
                                    !.clear_columns = clear_columns] >>]
        /\ doc = Document(Record(JDict(EmptyMap), SourceArray(<<"unit">>)))
        /\ tmpl = Workbook(SummaryGrid(JNum(1)), UnitMixGrid(cap, total, formulaColumn))
        /\ call = [NoCall EXCEPT !.output_path = Some(GivenOutputPath)]

Init ==
    StartRun /\ (ScalarRuns \/ ArrayRuns \/ SheetRuns \/ StructuralRuns \/ MultiFieldRuns
                    \/ ClearRuns)

Next ==
    \/ Load
    \/ SheetMissing
    \/ SheetFound
    \/ FillCell
    \/ MappingsDone
    \/ ArrayClear
    \/ ArrayRow
    \/ ArrayDelete
    \/ Save
    \/ Refill

Spec == Init /\ [][Next]_vars

(***************************************************************************)
(* Properties                                                              *)
(***************************************************************************)
\* the step about to be taken is a call of _fill_cell
AtFillCell == pc = "Mappings" /\ mi <= Len(Mappings)
\* the step about to be taken is the clear step, a source row, the deletion
AtArrayClear == pc = "Array"
AtArrayRow == pc = "Rows" /\ arr.row_idx < Len(arr.array_data)
AtArrayDelete == pc = "Rows" /\ arr.row_idx = Len(arr.array_data)

\* a cell value that is a string beginning with '='
HoldsFormula(v) == v.t = "str" /\ v.s \in FormulaTexts

\* every formula cell of grid g holds the same content in grid h
FormulasKept(g, h) ==
    \A r \in 1..GridRows, c \in Cols : HoldsFormula(g[r][c]) => h[r][c] = g[r][c]

\* h is g with the rows idx .. idx+amount-1 removed and the rows below moved up
RowsShifted(g, h, idx, amount) ==
    \A r \in 1..GridRows :
        /\ r < idx => h[r] = g[r]
        /\ r >= idx + amount => h[r - amount] = g[r]

\* C1 (as amended): no scalar write, clear step or array write changes a cell
\* that holds a formula; formula cells change only in the trailing-row deletion,
\* which removes the deleted rows and moves every row below them up unchanged.
\* This holds in the first run and in a second run on the produced output.
C1_FormulasChangeOnlyByRowDeletion ==
    [][ (pc \in {"Mappings", "Array", "Rows"}) =>
          (\A n \in DOMAIN wb :
             IF AtArrayDelete /\ n = SheetConfig.name
             THEN RowsShifted(wb[n], wb'[n], arr.row_start + arr.rows_to_fill, arr'.deleted)
             ELSE FormulasKept(wb[n], wb'[n])) ]_vars

\* C1 witness: in the second run, a row of the array block was written while the
\* formula of its column D was kept
C1_Witness ==
    /\ run = 2
    /\ pc = "Done"
    /\ \E i \in 1..Len(report.filled_fields) :
          LET rec == report.filled_fields[i]
          IN  /\ rec.sheet = "UnitMix"
              /\ Val(rec.cell).col = "B"
              /\ HoldsFormula(wb["UnitMix"][Val(rec.cell).row]["D"])

\* C1 as stated: after the run every cell that held a formula in the template
\* copy still holds the identical formula
C1_Original ==
    pc = "Done" =>
        \A n \in DOMAIN tmpl : FormulasKept(tmpl[n], wb[n])

\* the configs of the array blocks whose sheet is in the template and whose
\* unused rows are to be deleted (delete_empty_rows is not switched off)
ArrayBlocks ==
    {sc \in {cfg.sheets[i] : i \in 1..Len(cfg.sheets)} :
        /\ IsSome(sc.array_source)
        /\ sc.name \in DOMAIN tmpl
        /\ GetOr(sc.delete_empty_rows, TRUE)}

BlockRowStart(sc) == GetOr(sc.row_start, DefaultRowStart)
\* the Total row of the block in the template, 0 when there is none
BlockTotalRow(sc) == FindTotalRow(tmpl[sc.name], BlockRowStart(sc))
\* the source rows of the block, empty when the array does not resolve
BlockSource(sc) ==
    LET a == NavigateJsonPath(data, Val(sc.array_source))
    IN  IF IsList(a) THEN a.v ELSE <<>>
\* a source row whose category is "Total" or "All 2 Bed"
IsSummary(row) == DictGet(row, kBed) \in {JStr("Total"), JStr("All 2 Bed")}
IsUnit(row) == ~IsSummary(row)
\* the non-summary source rows, in source order
BlockUnits(sc) == SelectSeq(BlockSource(sc), IsUnit)
\* the sheet rows of the block that a report record says were written
WrittenRows(sc) ==
    {Val(report.filled_fields[i].cell).row :
        i \in {j \in 1..Len(report.filled_fields) : report.filled_fields[j].sheet = sc.name}}

\* C2: in the clear step and in the write of a source row, no cell of the Total
\* row or of a row below it changes
C2_TotalRowAndBelowUntouched ==
    [][ (AtArrayClear \/ AtArrayRow) =>
          (LET n == SheetConfig.name
               T == IF AtArrayClear
                    THEN FindTotalRow(wb[n], GetOr(SheetConfig.row_start, DefaultRowStart))
                    ELSE arr.total_row
           IN  T # 0 => \A r \in T..GridRows : wb'[n][r] = wb[n][r]) ]_vars

\* C3: with capacity C and N <= C non-summary source rows, exactly N rows are
\* written, C - N rows are deleted and the Total row ends at row_start + N
C3_TotalRowEndsAtRowStartPlusN ==
    (pc = "Done" /\ run = 1) =>
        \A sc \in ArrayBlocks :
            LET rs == BlockRowStart(sc)
                T0 == BlockTotalRow(sc)
                N == Len(BlockUnits(sc))
            IN  (T0 # 0 /\ N <= T0 - rs) =>
                    /\ Cardinality(WrittenRows(sc)) = N
                    /\ arr.deleted = (T0 - rs) - N
                    /\ wb[sc.name][rs + N] = tmpl[sc.name][T0]

\* C4: the k-th non-summary source row is in capacity row row_start + k - 1
\* after the run, wherever the summary rows are in the source array
C4_KthUnitInKthCapacityRow ==
    (pc = "Done" /\ run = 1) =>
        \A sc \in ArrayBlocks :
            LET rs == BlockRowStart(sc)
                T0 == BlockTotalRow(sc)
                units == BlockUnits(sc)
            IN  (T0 # 0 /\ Len(units) <= T0 - rs) =>
                    \A k \in 1..Len(units) :
                        /\ wb[sc.name][rs + k - 1]["B"] = DictGet(units[k], kName)
                        /\ wb[sc.name][rs + k - 1]["C"] = DictGet(units[k], kRent)

\* C5: after the run no capacity row above the Total row is blank
C5_NoBlankCapacityRow ==
    (pc = "Done" /\ run = 1) =>
        \A sc \in ArrayBlocks :
            LET rs == BlockRowStart(sc)
                T == FindTotalRow(wb[sc.name], rs)
            IN  (BlockTotalRow(sc) # 0 /\ T # 0) =>
                    \A r \in rs..(T - 1) : \E c \in Cols : wb[sc.name][r][c] # JNull

\* the mapping, the target and the lookup of the _fill_cell call about to be made
TheMapping == Mappings[mi]
TargetRef == GetOr(TheMapping.cell, BadRef)
TargetValue == CellValue(wb[SheetConfig.name], TargetRef.col, TargetRef.row)
DeclaredExternal == TheMapping.source = Some("external") \/ TheMapping.json_path = None
PrimaryValue ==
    NavigateJsonPath(IF IsSome(TheMapping.json_root_override) THEN doc ELSE data,
                     Val(TheMapping.json_path))
ExpectedValue ==
    IF IsSome(TheMapping.transform)
    THEN ApplyTransform(PrimaryValue, Val(TheMapping.transform))
    ELSE PrimaryValue

\* C6 (as amended): a scalar mapping whose target holds a formula never writes
\* the cell; its outcome is 'external' when it is declared external, 'skipped'
\* with the no-value reason when no value resolves, and 'skipped' with the
\* formula-protection reason in every other case
C6_FormulaTargetNeverWritten ==
    [][ (AtFillCell /\ ValidRef(TargetRef) /\ HoldsFormula(TargetValue)) =>
          /\ wb' = wb
          /\ IF DeclaredExternal THEN result'.status = "external"
             ELSE IF IsNone(ResolvedValue(TheMapping, data, doc))
             THEN result'.status = "skipped" /\ result'.reason = ReasonNoValue
             ELSE result'.status = "skipped" /\ result'.reason = ReasonFormula ]_vars

\* C6 witness: a mapping with a resolved value was skipped for formula protection
C6_Witness ==
    /\ pc = "Mappings"
    /\ mi = 2
    /\ result.status = "skipped"
    /\ result.reason = ReasonFormula
    /\ HoldsFormula(wb["Summary"][1]["B"])

\* C6 as stated: any mapping whose target holds a formula is skipped with the
\* formula-protection reason, and the cell is not written
C6_Original ==
    [][ (AtFillCell /\ ValidRef(TargetRef) /\ HoldsFormula(TargetValue)) =>
          /\ wb' = wb
          /\ result'.status = "skipped"
          /\ result'.reason = ReasonFormula ]_vars

\* C7 (as amended): a scalar mapping that is not declared external, has a path
\* and no fallback, against a valid target that holds no formula: when the path
\* resolves to a value a cell can store, the outcome is 'filled' and the cell
\* holds the transformed value; when it resolves to a mapping or a sequence the
\* write raises, the outcome is 'error' and the cell is unchanged; when it does
\* not resolve the outcome is 'skipped' with a reason and the cell is unchanged
C7_PathMappingFillsOrSkips ==
    [][ (/\ AtFillCell
         /\ ~DeclaredExternal
         /\ TheMapping.fallback_path = None
         /\ ValidRef(TargetRef)
         /\ ~HoldsFormula(TargetValue)) =>
          IF IsNone(PrimaryValue)
          THEN /\ result'.status = "skipped"
               /\ result'.reason = ReasonNoValue
               /\ wb' = wb
          ELSE IF ExpectedValue.t \in {"list", "dict"}
          THEN /\ result'.status = "error"
               /\ wb' = wb
          ELSE /\ result'.status = "filled"
               /\ result'.value = ExpectedValue
               /\ wb' = [wb EXCEPT ![SheetConfig.name][TargetRef.row][TargetRef.col] =
                                        ExpectedValue] ]_vars

\* C7 witness: the rate "97" was written to B1 as 97/100
C7_Witness ==
    /\ pc = "Mappings"
    /\ mi = 2
    /\ result.status = "filled"
    /\ result.value = JFrac(97, 100)
    /\ wb["Summary"][1]["B"] = JFrac(97, 100)
    /\ cfg.sheets[si].mappings[1][1].fallback_path = None

\* C7 as stated: a mapping with a path and no fallback against a target that
\* holds no formula is 'filled' when the path resolves and 'skipped' otherwise
C7_Original ==
    [][ (/\ AtFillCell
         /\ IsSome(TheMapping.json_path)
         /\ TheMapping.fallback_path = None
         /\ ValidRef(TargetRef)
         /\ ~HoldsFormula(TargetValue)) =>
          IF IsNone(PrimaryValue)
          THEN /\ result'.status = "skipped"
               /\ result'.reason = ReasonNoValue
               /\ wb' = wb
          ELSE /\ result'.status = "filled"
               /\ result'.value = ExpectedValue
               /\ wb' = [wb EXCEPT ![SheetConfig.name][TargetRef.row][TargetRef.col] =
                                        ExpectedValue] ]_vars

\* C8: a mapping that declares source "external" or has no json_path yields
\* 'external', one more record in external_fields and nothing else: no cell of
\* the workbook and no other list of the report changes
C8_ExternalWritesNothing ==
    [][ (AtFillCell /\ DeclaredExternal) =>
          /\ result'.status = "external"
          /\ wb' = wb
          /\ report' = [report EXCEPT !.external_fields = Append(@, result')] ]_vars

\* C8 witness: a mapping declared external whose path resolves and whose target
\* holds no formula came out 'external'
C8_Witness ==
    /\ pc = "Mappings"
    /\ mi = 2
    /\ result.status = "external"
    /\ cfg.sheets[si].mappings[1][1].source = Some("external")
    /\ cfg.sheets[si].mappings[1][1].json_path = Some(pOwnerName)
    /\ ~IsNone(NavigateJsonPath(data, pOwnerName))
    /\ wb["Summary"][1]["B"] = JNum(1)

\* C9: _navigate_json_path never raises
C9_NavigateNeverRaises == navPc = "done" => ~IsRaise(navResult)

\* C10 (as amended): when the whole, non-empty path is a key of the top-level
\* mapping, the result is that key's value, whatever the nested reading gives
C10_LiteralKeyFirst ==
    (navPc = "done" /\ IsDict(navData) /\ navPath # <<>> /\ navPath \in DOMAIN navData.v) =>
        navResult = navData.v[navPath]

\* C10 witness: "a.a" is a top-level key and also a nested path; the key wins
C10_Witness ==
    /\ navPc = "done"
    /\ navPath = <<"a", ".", "a">>
    /\ IsDict(navData)
    /\ navPath \in DOMAIN navData.v
    /\ ka \in DOMAIN navData.v
    /\ Walk(navData, SplitPath(navPath)) = JNum(2)
    /\ navResult = JNum(3)

\* C10 as stated: when the whole path is a key of the top-level mapping, the
\* result is that key's value
C10_Original ==
    (navPc = "done" /\ IsDict(navData) /\ navPath \in DOMAIN navData.v) =>
        navResult = navData.v[navPath]

\* C11: within a fill call the file at the template path never changes,
\* whether the run succeeds, fails, or is given the template path as output path
C11_TemplateFileUntouched ==
    [][ (pc \in {"Loading", "Sheet", "Mappings", "Array", "Rows"}) => tmpl' = tmpl ]_vars

\* C11 witness: a run was saved, and the saved output differs from the template
C11_Witness ==
    /\ pc = "Done"
    /\ run = 1
    /\ IsSome(outFile)
    /\ Val(outFile) # tmpl
    /\ Val(outFile) = wb

\* the run cannot start: no mapping config, the copy fails, the copy is no
\* workbook, or the data root does not resolve
StructuralFailure ==
    \/ ~cfg.loaded
    \/ SameFile(TemplatePath, OutputPath)
    \/ ~call.openable
    \/ IsNone(NavigateJsonPath(doc, GetOr(cfg.json_root, DefaultJsonRoot)))

\* C12: only a structural failure aborts the run; the failure of one mapping,
\* source row or column does not
C12_OnlyStructuralFailuresAbort == pc = "Failed" => StructuralFailure

\* the source row about to be written, and whether one of the multi-field
\* transforms of the configured columns cannot be computed for it
TheSourceRow == arr.array_data[arr.row_idx + 1]
UsesTransform(name) == \E i \in 1..Len(Mappings) : Mappings[i].transform = Some(name)
LabelNotComputable(row) ==
    /\ UsesTransform("bed_bath_label")
    /\ ~(IsNumeric(DictGet(row, kBed)) /\ IsNumeric(DictGet(row, kBath)))
OccupiedNotComputable(row) ==
    /\ UsesTransform("calc_occupied")
    /\ \/ IsNone(NavigateJsonPath(row, pUnitMixUnits))
       \/ IsNone(NavigateJsonPath(row, pAvailabilityUnits))

\* C16: a source row whose multi-field transform cannot be computed is skipped:
\* no cell is written for it and it is not counted among the written rows
C16_UncomputableRowSkipped ==
    [][ (/\ AtArrayRow
         /\ IsDict(TheSourceRow)
         /\ ~IsSummaryRow(TheSourceRow)
         /\ (LabelNotComputable(TheSourceRow) \/ OccupiedNotComputable(TheSourceRow))) =>
          (/\ wb' = wb
           /\ report' = report
           /\ arr'.rows_to_fill = arr.rows_to_fill) ]_vars

\* the error entry of a sheet that is not in the workbook
SheetError(name) == Outcome("error", name, None, JNull, "Sheet not found in template")
\* the records of a list of the report that carry the sheet name
RecordsOf(list, name) == {i \in 1..Len(list) : list[i].sheet = name}

Terminal == pc \in {"Done", "Failed"}
PerSheet == pc \in {"Sheet", "Mappings", "Array", "Rows"}
Progress ==
    << CASE pc = "Loading" -> 0 [] PerSheet -> 1 [] OTHER -> 2,
       si,
       CASE pc = "Mappings" -> 1 [] pc = "Array" -> 2 [] pc = "Rows" -> 3 [] OTHER -> 0,
       mi,
       arr.row_idx >>
LexLess(a, b) ==
    \E i \in 1..Len(a) : a[i] < b[i] /\ \A j \in 1..(i - 1) : a[j] = b[j]
\* the positions are bounded by the sizes of the config and of the source array
ProgressBounded ==
    /\ si \in 1..(Len(cfg.sheets) + 1)
    /\ PerSheet /\ pc # "Sheet" => si <= Len(cfg.sheets)
    /\ pc = "Mappings" => mi \in 1..(Len(Mappings) + 1)
    /\ pc = "Rows" => arr.row_idx \in 0..Len(arr.array_data)
\* the guard of one of the actions of a run holds
CanStep ==
    \/ pc = "Loading"
    \/ pc = "Sheet" /\ si <= Len(cfg.sheets) /\ ~SheetInWorkbook(SheetConfig.name, wb)
    \/ pc = "Sheet" /\ si <= Len(cfg.sheets) /\ SheetInWorkbook(SheetConfig.name, wb)
    \/ pc = "Mappings" /\ mi <= Len(Mappings)
    \/ pc = "Mappings" /\ mi > Len(Mappings)
    \/ pc = "Array"
    \/ pc = "Rows" /\ arr.row_idx < Len(arr.array_data)
    \/ pc = "Rows" /\ arr.row_idx = Len(arr.array_data)
    \/ pc = "Sheet" /\ si > Len(cfg.sheets)

\* C14: a run goes Loading, per-sheet processing, save, Done, or ends Failed.
\* Every step of a run advances its position, the positions are bounded and a
\* run that is not Done or Failed can take a step, so the run ends; it ends Done
\* with the workbook saved and the report with its summary returned, or Failed
\* with one error result that has no report lists; a run without mapping config,
\* with an unopenable template or an unresolved data root is Failed before any
\* sheet is processed; once Failed nothing is processed or saved
C14_RunEndsDoneOrFailed ==
    /\ [][ ~Terminal =>
             (/\ LexLess(Progress, Progress')
              /\ pc = "Loading" => pc' \in {"Sheet", "Failed"}
              /\ PerSheet => (PerSheet' \/ pc' \in {"Done", "Failed"})
              /\ pc' = "Done" => (pc = "Sheet" /\ si > Len(cfg.sheets))) ]_vars
    /\ [][ pc = "Failed" => UNCHANGED <<pc, wb, tmpl, outFile, report, ret>> ]_vars
    /\ [](ProgressBounded /\ (Terminal \/ CanStep))
    /\ [](pc = "Done" => /\ ret = SuccessResult(report)
                         /\ outFile = Some(wb))
    /\ [](pc = "Failed" <=> ret = ErrorResult)
    /\ [](StructuralFailure => pc \in {"Loading", "Failed"})

\* C14 witness: a run whose data root did not resolve ended Failed after the
\* template was copied, with the error result and without any sheet processed
C14_Witness ==
    /\ pc = "Failed"
    /\ ret = ErrorResult
    /\ cfg.loaded
    /\ call.openable
    /\ IsNone(NavigateJsonPath(doc, GetOr(cfg.json_root, DefaultJsonRoot)))
    /\ outFile = Some(tmpl)
    /\ report = EmptyReport

\* the fallback value of the mapping about to be processed: the fallback path
\* resolved against the whole document, then the fallback transform
FallbackOfDocument ==
    LET fb == NavigateJsonPath(doc, Val(TheMapping.fallback_path))
    IN  IF ~IsNone(fb) /\ IsSome(TheMapping.fallback_transform)
        THEN ApplyTransform(fb, Val(TheMapping.fallback_transform))
        ELSE fb
\* the primary value when it resolved, else the fallback value
PrimaryElseFallback == IF IsNone(PrimaryValue) THEN FallbackOfDocument ELSE PrimaryValue
FinalValue ==
    IF IsSome(TheMapping.transform)
    THEN ApplyTransform(PrimaryElseFallback, Val(TheMapping.transform))
    ELSE PrimaryElseFallback

\* C15: for a mapping with a fallback path against a valid target that holds no
\* formula, the value used is the primary value when the primary path resolved;
\* otherwise it is the fallback path resolved against the whole document with the
\* fallback transform applied. The declared transform is then applied and the
\* value written; when neither path resolves the mapping is skipped
C15_FallbackAgainstDocument ==
    [][ (/\ AtFillCell
         /\ ~DeclaredExternal
         /\ IsSome(TheMapping.fallback_path)
         /\ ValidRef(TargetRef)
         /\ ~HoldsFormula(TargetValue)) =>
          IF IsNone(PrimaryElseFallback)
          THEN /\ result'.status = "skipped"
               /\ wb' = wb
          ELSE IF FinalValue.t \in {"list", "dict"}
          THEN /\ result'.status = "error"
               /\ wb' = wb
          ELSE /\ result'.status = "filled"
               /\ result'.value = FinalValue
               /\ wb' = [wb EXCEPT ![SheetConfig.name][TargetRef.row][TargetRef.col] =
                                        FinalValue] ]_vars

\* C15 witness: the primary path owner.name did not resolve in the record, the
\* fallback path meta.rate resolved in the document only, and B1 holds the
\* fallback value "12" after the fallback transform
C15_Witness ==
    /\ pc = "Mappings"
    /\ mi = 2
    /\ cfg.sheets[si].mappings[1][1].json_path = Some(pOwnerName)
    /\ cfg.sheets[si].mappings[1][1].fallback_path = Some(pMetaRate)
    /\ cfg.sheets[si].mappings[1][1].transform = None
    /\ IsNone(NavigateJsonPath(data, pOwnerName))
    /\ IsNone(NavigateJsonPath(data, pMetaRate))
    /\ result.status = "filled"
    /\ wb["Summary"][1]["B"] = JFrac(12, 100)

(***************************************************************************)
(* C17: the transforms degrade to identity                                 *)
(***************************************************************************)
\* the strings that are written numbers
NumericTexts == DecimalTexts \cup {"9.7"}

\* input a known transform cannot work on: for the two numeric transforms a
\* value that is neither a number nor a string holding one, for the text
\* transforms a value that is no string
Malformed(value, transform) ==
    CASE transform = "divide_by_100" ->
            \/ value.t \in {"null", "list", "dict"}
            \/ value.t = "str" /\ value.s \notin NumericTexts
      [] transform = "to_number" ->
            value.t = "str" /\ Cleaned(value.s) \notin NumericTexts
      [] OTHER -> value.t # "str"

\* C17: an unknown transform name returns the value it was given, and a known
\* transform given malformed input returns the value it was given; no call
\* of _apply_transform raises.
C17_TransformsDegradeToIdentity ==
    trPc = "done" =>
        /\ ~IsRaise(trResult)
        /\ trName \notin KnownTransforms => trResult = trValue
        /\ (trName \in KnownTransforms /\ Malformed(trValue, trName)) => trResult = trValue

(***************************************************************************)
(* C18: one record per processed mapping, and the counts of the summary    *)
(***************************************************************************)
ReportLists == {"filled_fields", "skipped_fields", "external_fields", "errors"}

\* the list of the report names of a record status
ListOfStatus(status) ==
    CASE status = "filled" -> "filled_fields"
      [] status = "skipped" -> "skipped_fields"
      [] status = "external" -> "external_fields"
      [] status = "error" -> "errors"

\* the number of records of a report
RecordCount(rep) ==
    Len(rep.filled_fields) + Len(rep.skipped_fields) + Len(rep.external_fields)
        + Len(rep.errors)

\* the lists of the report that grew by exactly the record rec
GrownBy(rep, after, rec) == {l \in ReportLists : after[l] = Append(rep[l], rec)}

\* list a is the beginning of list b
IsPrefix(a, b) == Len(a) <= Len(b) /\ SubSeq(b, 1, Len(a)) = a

\* the records a completed run owes to its mappings and missing sheets: one
\* per mapping of a sheet of the workbook, one error entry per sheet not in it
RECURSIVE OwedRecords(_, _)
OwedRecords(sheets, workbook) ==
    IF sheets = <<>> THEN 0
    ELSE (IF Head(sheets).name \in DOMAIN workbook
          THEN Len(GetOr(Head(sheets).mappings, <<>>))
          ELSE 1) + OwedRecords(Tail(sheets), workbook)

\* C18: each processed mapping adds exactly one record, carrying the mapping's
\* sheet and cell, to exactly one of the four lists and leaves the other three
\* as they were; until the run ends no step removes or alters a record; the
\* report of a completed run is the one returned, holds at least the records
\* owed to the mappings (the array pass adds its own), and its four summary
\* counts are the lengths of its four lists
C18_OneRecordPerMapping ==
    /\ [][ (pc = "Mappings" /\ mi' = mi + 1) =>
             (/\ result'.status \in {"filled", "skipped", "external", "error"}
              /\ result'.sheet = SheetConfig.name
              /\ result'.cell = Mappings[mi].cell
              /\ GrownBy(report, report', result') = {ListOfStatus(result'.status)}
              /\ \A l \in ReportLists \ {ListOfStatus(result'.status)} :
                     report'[l] = report[l]
              /\ RecordCount(report') = RecordCount(report) + 1) ]_vars
    /\ [][ (pc \in {"Mappings", "Array", "Rows", "Sheet"}) =>
             (/\ \A l \in ReportLists : IsPrefix(report[l], report'[l])
              /\ (pc \in {"Mappings", "Array"} /\ mi' = mi) => report' = report) ]_vars
    /\ [](pc = "Done" =>
             /\ ret.status = "success"
             /\ ret.report = Some(report)
             /\ RecordCount(report) >= OwedRecords(cfg.sheets, wb)
             /\ (\A i \in 1..Len(cfg.sheets) : cfg.sheets[i].array_source = None)
                    => RecordCount(report) = OwedRecords(cfg.sheets, wb)
             /\ Val(ret.summary).total_filled = Len(report.filled_fields)
             /\ Val(ret.summary).total_skipped = Len(report.skipped_fields)
             /\ Val(ret.summary).total_external = Len(report.external_fields)
             /\ Val(ret.summary).total_errors = Len(report.errors))

\* a completed run whose report holds records in two lists
C18_Witness ==
    /\ pc = "Done"
    /\ Len(report.external_fields) = 3
    /\ Len(report.filled_fields) >= 1
    /\ Val(ret.summary).total_external = 3

(***************************************************************************)
(* C19, C20: the four lists of a sheet schema                              *)
(***************************************************************************)
SchemaLists == {"input_fields", "formula_fields", "labels", "headers"}

\* the type the records of a list carry
TypeOfList(l) ==
    CASE l = "input_fields" -> "input"
      [] l = "formula_fields" -> "formula"
      [] l = "labels" -> "label"
      [] l = "headers" -> "header"

\* the places of the schema where a record of the cell stands
Occurrences(schema, row, col) ==
    {<<l, i>> \in SchemaLists \X (1..(SheetMaxRow * SheetMaxCol)) :
        /\ i <= Len(schema[l])
        /\ schema[l][i].row = row
        /\ schema[l][i].column = col}

\* a cell holding None or a string of nothing but whitespace
IsEmptyCell(cell) ==
    \/ cell.value.t = "null"
    \/ cell.value.t = "str" /\ cell.value.s \in {"", "  "}

\* the cell is inside a merged range without being its top-left cell
NonMasterOf(rg, row, col) ==
    InRange(row, col, rg) /\ ~(row = rg.min_row /\ col = rg.min_col)
Addressable(sheet, row, col) == \A rg \in sheet.merged : ~NonMasterOf(rg, row, col)

\* the cell loop has handled the cell
Visited(row, col) ==
    anPc = "done" \/ row < anRow \/ (row = anRow /\ col < anCol)

\* C19: once visited, every addressable cell that is not empty has exactly one
\* record, standing in exactly one of the four lists and carrying that list's
\* type and the cell's own reference; an empty cell (None or whitespace only)
\* has no record in any list; a cell not yet visited has none
C19_EveryCellInExactlyOneList ==
    anPc \in {"cells", "done"} =>
        \A pos \in Positions :
            LET occ == Occurrences(anSchema, pos[1], pos[2])
                cell == anSheet.cells[pos[1]][pos[2]]
            IN  /\ IsEmptyCell(cell) => occ = {}
                /\ ~Visited(pos[1], pos[2]) => occ = {}
                /\ (/\ ~IsEmptyCell(cell)
                    /\ Addressable(anSheet, pos[1], pos[2])
                    /\ Visited(pos[1], pos[2])) =>
                       /\ Cardinality(occ) = 1
                       /\ \A o \in occ :
                              /\ anSchema[o[1]][o[2]].type = TypeOfList(o[1])
                              /\ anSchema[o[1]][o[2]].cell = Coordinate(pos[1], pos[2])

\* a finished schema of a sheet with a whitespace-only cell and a classified cell
C19_Witness ==
    /\ anPc = "done"
    /\ \E pos \in Positions : anSheet.cells[pos[1]][pos[2]].value = JStr("  ")
    /\ \E pos \in Positions : Cardinality(Occurrences(anSchema, pos[1], pos[2])) = 1

\* C20: no cell inside a merged range other than its top-left cell has a
\* record in any of the four lists, whatever it holds; the top-left cell, when
\* it is not empty, has its record, marked as merged with itself as master
C20_OnlyMasterOfMergedRegion ==
    anPc \in {"cells", "done"} =>
        \A rg \in anSheet.merged : \A pos \in Positions :
            LET occ == Occurrences(anSchema, pos[1], pos[2])
            IN  /\ NonMasterOf(rg, pos[1], pos[2]) => occ = {}
                /\ (/\ pos = <<rg.min_row, rg.min_col>>
                    /\ Visited(pos[1], pos[2])
                    /\ ~IsEmptyCell(anSheet.cells[pos[1]][pos[2]])) =>
                       /\ Cardinality(occ) = 1
                       /\ \A o \in occ :
                              /\ anSchema[o[1]][o[2]].is_merged
                              /\ anSchema[o[1]][o[2]].merge_master = Some(StartCell(rg))

\* a finished schema of a sheet whose merged range holds content in a cell
\* that is not its top-left cell, and whose top-left cell was classified
C20_Witness ==
    /\ anPc = "done"
    /\ \E rg \in anSheet.merged : \E pos \in Positions :
           /\ NonMasterOf(rg, pos[1], pos[2])
           /\ ~IsEmptyCell(anSheet.cells[pos[1]][pos[2]])
           /\ Occurrences(anSchema, rg.min_row, rg.min_col) # {}

(***************************************************************************)
(* C22: the capacity of an array block                                     *)
(***************************************************************************)
\* text that reads "total" or "totals" once trimmed and lower-cased
IsTotalText(v) == v.t = "str" /\ v.s \in {"Total", " TOTALS "}

\* the rows of the 50-row window from row_start whose anchor cell reads so
TotalRowsInWindow(sheet, row_start) ==
    {r \in row_start..(row_start + 49) : r \in DOMAIN sheet /\ IsTotalText(sheet[r]["B"])}

\* C22: the Total row is the first row of the anchor column, in the 50 rows
\* from row_start, whose text is "total" or "totals" once trimmed and
\* lower-cased, and the capacity is Total row - row_start; when the window
\* holds no such row the capacity is the configured max_rows, 25 by default
C22_CapacityFromTotalRow ==
    capCall.pc = "done" =>
        LET rows == TotalRowsInWindow(capCall.sheet, capCall.row_start)
        IN  IF rows # {}
            THEN /\ capCall.total_row \in rows
                 /\ \A r \in rows : capCall.total_row <= r
                 /\ capCall.rows_in_table = capCall.total_row - capCall.row_start
            ELSE /\ capCall.total_row = 0
                 /\ capCall.rows_in_table =
                        (IF capCall.max_rows = None THEN 25 ELSE Val(capCall.max_rows))

\* a finished scan of a sheet whose only Total rows lie below the window, with
\* the default max_rows
C22_Witness ==
    /\ capCall.pc = "done"
    /\ TotalRowsInWindow(capCall.sheet, capCall.row_start) = {}
    /\ \E r \in DOMAIN capCall.sheet : IsTotalText(capCall.sheet[r]["B"])
    /\ capCall.max_rows = None
    /\ capCall.rows_in_table = 25

(***************************************************************************)
(* C23: the clear step                                                     *)
(***************************************************************************)
\* the declared clear columns, by default the columns of the column mappings
DeclaredClearColumns ==
    IF SheetConfig.clear_columns # None THEN Val(SheetConfig.clear_columns)
    ELSE {Val(Mappings[i].column) : i \in {j \in 1..Len(Mappings) : Mappings[j].column # None}}

\* the capacity rows of the sheet of the current config
CapacityRows ==
    LET row_start == IF SheetConfig.row_start = None THEN 1 ELSE Val(SheetConfig.row_start)
        rows == TotalRowsInWindow(wb[SheetConfig.name], row_start)
        C == IF rows # {} THEN SetMin(rows) - row_start
             ELSE IF SheetConfig.max_rows = None THEN 25 ELSE Val(SheetConfig.max_rows)
    IN  row_start..(row_start + C - 1)

\* C23: the clear step sets to None exactly the cells of the declared clear
\* columns (by default the mapped columns) in the capacity rows that hold no
\* formula; formula cells in that range, cells of other columns, cells of rows
\* outside the capacity range and the other sheets are as they were
C23_ClearStepBlanksCapacityCells ==
    [][ (pc = "Array") =>
          (/\ \A r \in 1..GridRows : \A c \in Cols :
                  wb'[SheetConfig.name][r][c] =
                      IF /\ c \in DeclaredClearColumns
                         /\ r \in CapacityRows
                         /\ ~HoldsFormula(wb[SheetConfig.name][r][c])
                      THEN JNull
                      ELSE wb[SheetConfig.name][r][c]
           /\ \A n \in DOMAIN wb \ {SheetConfig.name} : wb'[n] = wb[n]) ]_vars

\* after a clear step with declared clear columns other than the mapped ones:
\* a capacity row whose formula in column D stayed, whose number in column C
\* was blanked, and whose mapped column B kept its text
C23_Witness ==
    /\ pc \in {"Rows", "Sheet"}
    /\ arr.max_rows >= 1
    /\ cfg.sheets[1].clear_columns = Some({"C", "D"})
    /\ HoldsFormula(wb["UnitMix"][RowStart]["D"])
    /\ wb["UnitMix"][RowStart]["C"] = JNull
    /\ tmpl["UnitMix"][RowStart]["C"] # JNull
    /\ wb["UnitMix"][RowStart]["B"] = JStr("Unit")

(***************************************************************************)
(* C27: the column mappings in the scalar pass                             *)
(***************************************************************************)
\* the entries of a "mappings" list that the scalar pass treats as external
ExternalEntries(sheet_config) ==
    LET entries == IF sheet_config.mappings = None THEN <<>> ELSE Val(sheet_config.mappings)
    IN  {i \in 1..Len(entries) :
            entries[i].json_path = None \/ entries[i].source = Some("external")}

\* C27: on a sheet that declares array_source, each entry of "mappings"
\* without json_path adds one 'external' record carrying the entry's cell
\* (None for a column mapping) and writes no cell; the array pass starts only
\* after the last entry; in a completed run external_fields holds, for each
\* such sheet of the workbook, one record per such entry, and total_external
\* counts them
C27_ColumnMappingsReportedExternal ==
    /\ [][ (/\ pc = "Mappings" /\ mi' = mi + 1
            /\ SheetConfig.array_source # None
            /\ Mappings[mi].json_path = None) =>
             (/\ report'.external_fields =
                    Append(report.external_fields,
                           Outcome("external", SheetConfig.name, Mappings[mi].cell, JNull, ""))
              /\ wb' = wb) ]_vars
    /\ [][ (pc # "Array" /\ pc' = "Array") =>
             (pc = "Mappings" /\ mi > Len(Mappings)) ]_vars
    /\ [](pc = "Done" =>
             /\ \A i \in 1..Len(cfg.sheets) :
                    (cfg.sheets[i].array_source # None /\ cfg.sheets[i].name \in DOMAIN wb) =>
                        Cardinality(RecordsOf(report.external_fields, cfg.sheets[i].name))
                            = Cardinality(ExternalEntries(cfg.sheets[i]))
             /\ Val(ret.summary).total_external = Len(report.external_fields))

\* a completed run of an array sheet with three column mappings: three
\* external records with a null cell beside the records of the array pass
C27_Witness ==
    /\ pc = "Done"
    /\ cfg.sheets[1].array_source # None
    /\ Len(Val(cfg.sheets[1].mappings)) = 3
    /\ Len(report.external_fields) = 3
    /\ \A i \in 1..3 : /\ report.external_fields[i].cell = None
                       /\ report.external_fields[i].sheet = "UnitMix"
    /\ report.filled_fields # <<>>
    /\ Val(ret.summary).total_external = 3

(***************************************************************************)
(* C28: the output file of a failed run                                    *)
(***************************************************************************)
\* C28: when a run has failed and its output file exists, the file holds the
\* cell contents of the template, whatever was written to the loaded
\* workbook before the failure; the file takes the workbook's contents only
\* in the step that completes the run
C28_FailedRunLeavesTemplateCopy ==
    /\ [](pc = "Failed" /\ outFile # None => outFile = Some(tmpl))
    /\ [][ (pc \in {"Sheet", "Mappings", "Array", "Rows"} /\ pc' # "Done") =>
             outFile' = outFile ]_vars
    /\ [](pc \in {"Sheet", "Mappings", "Array", "Rows"} => outFile = Some(tmpl))

\* a run that failed during sheet processing after cells of the loaded
\* workbook were changed
C28_Witness ==
    /\ pc = "Failed"
    /\ outFile = Some(tmpl)
    /\ wb # <<>>
    /\ wb # tmpl
    /\ si = 1

(***************************************************************************)
(* C29: both transforms on a fallback value                                *)
(***************************************************************************)
\* the value the fallback path finds in the whole document
FallbackFound == NavigateJsonPath(doc, Val(TheMapping.fallback_path))

\* transform(fallback_transform(v)) of the mapping about to be processed
BothTransforms(v) ==
    ApplyTransform(ApplyTransform(v, Val(TheMapping.fallback_transform)),
                   Val(TheMapping.transform))

\* C29: when the primary path finds nothing, the fallback path finds v, and
\* the mapping declares both fallback_transform and transform, the value
\* written to a valid target that holds no formula is
\* transform(fallback_transform(v))
C29_TransformAppliesToFallback ==
    [][ (/\ AtFillCell
         /\ ~DeclaredExternal
         /\ TheMapping.fallback_path # None
         /\ TheMapping.fallback_transform # None
         /\ TheMapping.transform # None
         /\ IsNone(PrimaryValue)
         /\ ~IsNone(FallbackFound)
         /\ ValidRef(TargetRef)
         /\ ~HoldsFormula(TargetValue)
         /\ BothTransforms(FallbackFound).t \notin {"list", "dict", "raise"}) =>
          (/\ result'.status = "filled"
           /\ result'.value = BothTransforms(FallbackFound)
           /\ wb'[SheetConfig.name][TargetRef.row][TargetRef.col]
                  = BothTransforms(FallbackFound)) ]_vars

\* the fallback value "12" of meta.rate written to B1 after divide_by_100 as
\* fallback transform and divide_by_100 as transform: 12 / 100 / 100
C29_Witness ==
    /\ pc = "Mappings"
    /\ mi = 2
    /\ cfg.sheets[si].mappings[1][1].fallback_path = Some(pMetaRate)
    /\ cfg.sheets[si].mappings[1][1].fallback_transform = Some("divide_by_100")
    /\ cfg.sheets[si].mappings[1][1].transform = Some("divide_by_100")
    /\ cfg.sheets[si].mappings[1][1].json_path = Some(pOwnerName)
    /\ IsNone(NavigateJsonPath(data, pOwnerName))
    /\ result.status = "filled"
    /\ result.value = JFrac(12, 10000)
    /\ wb["Summary"][1]["B"] = JFrac(12, 10000)

(***************************************************************************)
(* C30: a second fill of the output of a fill                             *)
(***************************************************************************)
\* C30: a fill of the output of a previous fill, with the same mapping
\* config and the same source data, yields sheets identical to that output
C30_RefillIdentical ==
    (pc = "Done" /\ run = MaxRuns /\ IsSome(outFile)) => outFile = Some(tmpl)

(***************************************************************************)
(* C24: the order of the classification rules                              *)
(***************************************************************************)
ClsValue == clsCall.cell.value
ClsIsText == ClsValue.t = "str"
ClsIsEmpty == IsNone(ClsValue) \/ (ClsIsText /\ IsBlankText(ClsValue.s))
ClsIsFormula == ClsIsText /\ StartsWithEquals(ClsValue.s)
\* ends with ":", or a word of the vocabulary, or column <= 2 and length < 30,
\* or bold
ClsLabelHeuristic ==
    /\ ClsIsText
    /\ \/ EndsWithColon(ClsValue.s)
       \/ MatchesVocabulary(ClsValue.s)
       \/ clsCall.column <= 2 /\ IsShortText(ClsValue.s)
       \/ clsCall.cell.bold
\* a colon that only blanks follow, after word characters and blanks
ClsColonThenBlanks == ClsIsText /\ MatchesColonPattern(ClsValue.s)
\* a numeric or date value, or a number format other than the default
ClsInputRule ==
    \/ ClsValue.t \in {"num", "frac", "date"}
    \/ clsCall.cell.number_format # "General"

\* the first rule that matches, in the order Empty, Formula, Header, Label
\* heuristic, Input, default
FirstMatch(labelled) ==
    IF ClsIsEmpty THEN "empty"
    ELSE IF ClsIsFormula THEN "formula"
    ELSE IF clsCall.is_header_row /\ ClsIsText THEN "header"
    ELSE IF labelled THEN "label"
    ELSE IF ClsInputRule THEN "input"
    ELSE IF ClsIsText THEN "label"
    ELSE "input"

Least(a, b) == IF a < b THEN a ELSE b
HdrCells == hdrCall.sheet.cells
\* the columns among the first n of the row that hold non-empty text
TextColumns(r, n) ==
    {c \in 1..Least(n, MaxColumn(hdrCall.sheet)) : IsText(HdrCells[r][c].value)}
BoldColumns(r, n) == {c \in TextColumns(r, n) : HdrCells[r][c].bold}

\* C25: row 1 is a header row if one of its columns 1..10 holds non-empty
\* text; a row among rows 1..10 is a header row if, among its columns 1..20,
\* the bold text cells are more than half of the text cells; no other row is
\* a header row
C25_HeaderRowsFirstTenAndTwenty ==
    hdrCall.pc = "done" =>
        hdrCall.header_rows =
            (IF MaxRow(hdrCall.sheet) > 0 /\ TextColumns(1, 10) # {} THEN {1} ELSE {})
            \cup {r \in 1..Least(10, MaxRow(hdrCall.sheet)) :
                     2 * Cardinality(BoldColumns(r, 20)) > Cardinality(TextColumns(r, 20))}

(***************************************************************************)
(* C26: the association of labels to inputs                                *)
(***************************************************************************)
\* the step about to be taken is the association
AtAssociate == anPc = "cells" /\ anRow > MaxRow(anSheet)
\* the labels at a position and the headers of a column, as list indexes
LabelsAt(row, col) ==
    {i \in 1..Len(anSchema.labels) :
        anSchema.labels[i].row = row /\ anSchema.labels[i].column = col}
HeadersOf(col) == {i \in 1..Len(anSchema.headers) : anSchema.headers[i].column = col}
\* the input field carries the text and the cell of the record
LabelledBy(field, found) ==
    field.label = found.text /\ field.label_cell = Some(found.cell)

\* C26: the association gives each input field the label to its left,
\* otherwise the label above it, otherwise the first header of its column,
\* otherwise no label; it changes nothing but the label and label_cell of the
\* input fields, and leaves the labels and the headers as they were
C26_FirstLabelWins ==
    [][ AtAssociate =>
          /\ anSchema'.labels = anSchema.labels
          /\ anSchema'.headers = anSchema.headers
          /\ anSchema'.formula_fields = anSchema.formula_fields
          /\ Len(anSchema'.input_fields) = Len(anSchema.input_fields)
          /\ \A i \in 1..Len(anSchema.input_fields) :
                LET old == anSchema.input_fields[i]
                    new == anSchema'.input_fields[i]
                    left == LabelsAt(old.row, old.column - 1)
                    above == LabelsAt(old.row - 1, old.column)
                    header == HeadersOf(old.column)
                IN  /\ [new EXCEPT !.label = None, !.label_cell = None] = old
                    /\ IF left # {} THEN LabelledBy(new, anSchema.labels[SetMin(left)])
                       ELSE IF above # {}
                       THEN LabelledBy(new, anSchema.labels[SetMin(above)])
                       ELSE IF header # {}
                       THEN LabelledBy(new, anSchema.headers[SetMin(header)])
                       ELSE new.label = None /\ new.label_cell = None ]_vars

\* the input B3 with the label "Name:" in A3 and the label "Notes" in B2 is
\* labelled by A3
C26_Witness ==
    /\ anPc = "done"
    /\ Len(anSchema.input_fields) = 1
    /\ anSchema.input_fields[1].cell = Coordinate(3, 2)
    /\ \E i, j \in 1..Len(anSchema.labels) :
          /\ anSchema.labels[i].cell = Coordinate(3, 1)
          /\ anSchema.labels[j].cell = Coordinate(2, 2)
    /\ anSchema.input_fields[1].label = Some("Name:")
    /\ anSchema.input_fields[1].label_cell = Some(Coordinate(3, 1))

(***************************************************************************)
(* C21: a sheet that cannot be analyzed                                    *)
(***************************************************************************)
\* C21: when the file can be opened, analyze returns a schema with one entry
\* per sheet, in order: the schema of every sheet that can be analyzed, and an
\* error entry in place of the schema of a sheet that cannot; only a file that
\* cannot be opened gives a single error object
C21_FailedSheetReportedInPlace ==
    anRun.pc = "done" =>
        IF anRun.openable
        THEN /\ anRun.result.kind = "schema"
             /\ Len(anRun.result.sheets) = Len(anRun.sheets)
             /\ \A i \in 1..Len(anRun.sheets) :
                   IF AnalyzeSheet(anRun.sheets[i]) = Raise
                   THEN "error" \in DOMAIN anRun.result.sheets[i]
                   ELSE anRun.result.sheets[i] = AnalyzeSheet(anRun.sheets[i])
        ELSE anRun.result.kind = "error"

====
